---- MODULE Spec2Model ----
(***************************************************************************)
(* Smart Stick cloud backend: the Event (incident) collection and the     *)
(* operations that create and change its documents.                       *)
(*                                                                         *)
(*   Spec       the SOS incident lifecycle through SOSController          *)
(*              (receiveSOS, acknowledgeSOS, resolveSOS, escalateSOS),    *)
(*              one request handled after another.                        *)
(*   SpecAlert  telemetry ingestion and the alert rules with their        *)
(*              cooldown, HTTP path and MQTT path, one message after      *)
(*              another.                                                  *)
(*   SpecRace   MQTT telemetry handlers running concurrently: every       *)
(*              await of handleTelemetryMessage / handleLowBatteryAlert   *)
(*              is a point where another handler may run.                 *)
(*                                                                         *)
(* Time is in milliseconds (Date.now()).  Text is a sequence of pieces:    *)
(* " ", "<" and ">" are single characters, any other piece is a run of    *)
(* characters that are neither, so that trim() and replace() can be       *)
(* computed.                                                              *)
(***************************************************************************)
EXTENDS Integers, Sequences, FiniteSets, TLC

VARIABLES
    events,     \* the Event collection: a sequence of documents, _id = index
    now,        \* Date.now()
    ticks,      \* how many times the clock has advanced
    nreq,       \* number of requests / messages handled so far
    last,       \* the request handled last and the answer it got
    telemetry,  \* the Telemetry collection: a sequence of documents
    handlers,   \* SpecRace: the in-flight MQTT telemetry handlers
    router,     \* the MQTTClient singleton and the broker session it holds
    lastSeen    \* devices.$.lastSeen in the User collection, by device id

vars == <<events, now, ticks, nreq, last, telemetry, handlers, router, lastSeen>>

-----------------------------------------------------------------------------
(* Bounds of the model *)

MaxIncidents == 1
MaxRequests == 4
MaxTicks == 1
MaxMessages == 3
MaxAlertTicks == 2
MaxHandlers == 2
MaxRaceTicks == 1
MaxHistory == 2
MaxRuleMessages == 1
MaxConnects == 2
MaxRouterCalls == 2
MaxIngestTicks == 1
MaxSosCalls == 2
MaxCommandCalls == 2
MaxAccessCalls == 3

-----------------------------------------------------------------------------
(* Program constants *)

EscalationLevelMin == 1
EscalationLevelMax == 5
EscalateCap == 5
LowBatteryThreshold == 20
LowBatteryHighBelow == 10
LowBatteryWindowMs == 3600000
ObstacleWindowMs == 5000
ObstacleThreshold == 30
ObstacleHighBelowHttp == 15
ObstacleHighBelowMqtt == 20
UltrasonicDefault == 1000
BatteryLevelMax == 100
UltrasonicMax == 1000
maxReconnectAttempts == 10

\* gps.lat within -90..90, gps.lon within -180..180
LatMax == 90

LonMax == 180

-----------------------------------------------------------------------------
(* The external registry: users, the devices they own, their push tokens *)

Devices == {<<"stick-001">>, <<"stick-002">>}

UserIds == {"owner1", "owner2", "admin", "guest"}

UserDevices(u) ==
    CASE u = "owner1" -> {<<"stick-001">>}
      [] u = "owner2" -> {<<"stick-001">>}
      [] u = "guest" -> {<<"stick-002">>}
      [] OTHER -> {}

IsAdmin(u) == u = "admin"

HasFcmToken(u) == u \in {"owner1", "owner2", "admin"}

\* an access check that lets every user through
hasAccess_Everyone(u, deviceId) == TRUE

\* user.devices.some(d => d.deviceId === event.deviceId) || user.isAdmin
hasAccess(u, deviceId) == deviceId \in UserDevices(u) \/ IsAdmin(u)

\* User.findUsersWithFCMByDevice: the users that list the device and hold a token
findUsersWithFCMByDevice(deviceId) ==
    {u \in UserIds : deviceId \in UserDevices(u) /\ HasFcmToken(u)}

\* the User collection in its natural order
UserOrder == <<"owner1", "owner2", "admin", "guest">>

\* the array the query returns
userList(deviceId) ==
    LET found(u) == u \in findUsersWithFCMByDevice(deviceId)
    IN SelectSeq(UserOrder, found)

\* gps.lat and gps.lon of a payload; payloads written without them carry
\* coordinates inside the ranges
Lat(m) == IF "lat" \in DOMAIN m THEN m.lat ELSE 0

Lon(m) == IF "lon" \in DOMAIN m THEN m.lon ELSE 0

-----------------------------------------------------------------------------
(* The device registry in the User documents *)

\* the device ids some user lists
RegisteredDevices == UNION {UserDevices(u) : u \in UserIds}

\* lastSeen before any update
NeverSeen == [d \in RegisteredDevices |-> -1]

\* User.findOneAndUpdate({"devices.deviceId": deviceId},
\*     {$set: {"devices.$.lastSeen": new Date()}}): the registry afterwards; a
\* device id no user lists matches no document
findOneAndUpdate(seen, deviceId, t) ==
    [d \in DOMAIN seen |-> IF d = deviceId THEN t ELSE seen[d]]

-----------------------------------------------------------------------------
(* Text *)

RECURSIVE trimStart(_)
trimStart(s) ==
    IF s # <<>> /\ Head(s) = " " THEN trimStart(Tail(s)) ELSE s

RECURSIVE trimEnd(_)
trimEnd(s) ==
    IF s # <<>> /\ s[Len(s)] = " " THEN trimEnd(SubSeq(s, 1, Len(s) - 1)) ELSE s

NotAngle(c) == c \notin {"<", ">"}

\* value.trim().replace(/[<>]/g, "")
sanitizeText(value) == SelectSeq(trimEnd(trimStart(value)), NotAngle)

-----------------------------------------------------------------------------
(* Event documents *)

NoResolution ==
    [resolvedAt |-> -1, resolvedBy |-> "", resolutionNote |-> <<>>,
     resolutionActions |-> <<>>]

DefaultEscalation ==
    [escalated |-> FALSE, escalatedAt |-> -1, escalatedTo |-> "",
     escalationReason |-> <<>>, escalationLevel |-> EscalationLevelMin]

DefaultNotifications ==
    [fcmSent |-> FALSE, fcmTimestamp |-> -1, fcmError |-> ""]

\* a new document with the schema's defaults
NewEvent(type, deviceId, severity, timestamp, alertValue) ==
    [type |-> type, deviceId |-> deviceId, timestamp |-> timestamp,
     severity |-> severity, status |-> "active", alertValue |-> alertValue,
     notifications |-> DefaultNotifications,
     resolution |-> NoResolution,
     escalation |-> DefaultEscalation,
     acknowledgments |-> <<>>]

\* metadata.emergencyType of the Event schema
EmergencyTypes == {"fall", "medical", "panic", "obstacle", "manual", "automatic"}

\* eventSchema.statics.createSOSEvent: the document it hands to create()
createSOSEvent(deviceId, t) == NewEvent("SOS", deviceId, "critical", t, -1)

\* virtual isAcknowledged
isAcknowledged(ev) == Len(ev.acknowledgments) > 0

\* acknowledge without the isAcknowledged guard: every call pushes an entry
acknowledge_PushAlways(ev, userId, note, t) ==
    [ev EXCEPT
        !.acknowledgments =
            Append(@, [acknowledgedBy |-> userId, acknowledgedAt |-> t,
                       note |-> note]),
        !.status = IF @ = "active" THEN "acknowledged" ELSE @]

\* acknowledge that sets the status whatever it was
acknowledge_StatusAlways(ev, userId, note, t) ==
    IF Len(ev.acknowledgments) = 0
    THEN [ev EXCEPT
            !.acknowledgments =
                Append(@, [acknowledgedBy |-> userId, acknowledgedAt |-> t,
                           note |-> note]),
            !.status = "acknowledged"]
    ELSE ev

\* eventSchema.methods.acknowledge: the document before save()
acknowledge(ev, userId, note, t) ==
    IF ~isAcknowledged(ev)
    THEN [ev EXCEPT
            !.acknowledgments =
                Append(@, [acknowledgedBy |-> userId, acknowledgedAt |-> t,
                           note |-> note]),
            !.status = IF @ = "active" THEN "acknowledged" ELSE @]
    ELSE ev

ActionEntries(actions, userId, t) ==
    [i \in 1..Len(actions) |->
        [action |-> actions[i], timestamp |-> t, performedBy |-> userId]]

\* resolve that rebuilds the document's lists and so drops the acknowledgments
resolve_DropsAcknowledgments(ev, userId, resolutionNote, actions, t) ==
    [ev EXCEPT
        !.status = "resolved",
        !.acknowledgments = <<>>,
        !.resolution =
            [resolvedAt |-> t, resolvedBy |-> userId,
             resolutionNote |-> resolutionNote,
             resolutionActions |->
                [i \in 1..Len(actions) |->
                    [action |-> actions[i], timestamp |-> t,
                     performedBy |-> userId]]]]

\* eventSchema.methods.resolve: the document before save()
resolve(ev, userId, resolutionNote, actions, t) ==
    [ev EXCEPT
        !.status = "resolved",
        !.resolution =
            [resolvedAt |-> t, resolvedBy |-> userId,
             resolutionNote |-> resolutionNote,
             resolutionActions |-> ActionEntries(actions, userId, t)]]

MathMin(a, b) == IF a < b THEN a ELSE b

\* eventSchema.methods.escalate: the document before save()
escalate(ev, escalatedTo, reason, level, t) ==
    [ev EXCEPT
        !.escalation =
            [escalated |-> TRUE, escalatedAt |-> t, escalatedTo |-> escalatedTo,
             escalationReason |-> reason,
             escalationLevel |-> MathMin(level, EscalateCap)]]

\* the schema validators save() runs: escalationLevel min 1, max 5
validates(ev) ==
    /\ ev.escalation.escalationLevel >= EscalationLevelMin
    /\ ev.escalation.escalationLevel <= EscalationLevelMax

\* document.save(): the collection afterwards (unchanged when validation throws)
save(evs, id, doc) == IF validates(doc) THEN [evs EXCEPT ![id] = doc] ELSE evs

-----------------------------------------------------------------------------
(* Requests *)

\* an event id of the request path: 0 stands for a string that is no ObjectId,
\* an id above Len(events) for a well-formed id no document has
EventIdInputs == 0..MaxIncidents

\* Validators.isValidObjectId
isValidObjectId(id) == id >= 1

\* req.user.userId: "ghost" holds a valid token but has no user document
Callers == UserIds \cup {"ghost"}

\* deviceId of a request body: a device id, also one sent with a leading blank
DeviceIdInputs == Devices \cup {<<" ", "stick-001">>}

\* bodies of acknowledge requests, with the caller the token names
AcknowledgeInputs ==
    {[caller |-> "owner1", note |-> <<>>],
     [caller |-> "admin", note |-> <<" ", "on my way", "<">>],
     [caller |-> "guest", note |-> <<>>]}

\* bodies of resolve requests
ResolveInputs ==
    {[caller |-> "owner1", resolutionNote |-> <<>>, actions |-> <<>>],
     [caller |-> "admin", resolutionNote |-> <<"false alarm", " ">>,
      actions |-> << <<"called">>, <<" ", "visited">> >>],
     [caller |-> "ghost", resolutionNote |-> <<>>, actions |-> <<>>]}

\* bodies of escalate requests: escalatedTo "" is absent, "nobody" is no
\* ObjectId; the levels lie below, inside and above 1..5
EscalateInputs ==
    {[caller |-> "owner1", escalatedTo |-> "admin", reason |-> <<>>, level |-> 0],
     [caller |-> "owner1", escalatedTo |-> "admin", reason |-> <<"urgent", " ">>,
      level |-> 7],
     [caller |-> "admin", escalatedTo |-> "", reason |-> <<>>, level |-> 3],
     [caller |-> "admin", escalatedTo |-> "owner1", reason |-> <<>>, level |-> -1],
     [caller |-> "guest", escalatedTo |-> "nobody", reason |-> <<>>, level |-> 1]}

isValidTarget(target) == target \in UserIds

Answer(op, eventId, code) == [op |-> op, eventId |-> eventId, code |-> code]

\* the checks acknowledgeSOS, resolveSOS and escalateSOS make before they
\* change the event: the status code they answer, 0 when all checks pass
Precheck(eventId, caller) ==
    IF ~isValidObjectId(eventId) THEN 400
    ELSE IF eventId \notin DOMAIN events THEN 404
    ELSE IF events[eventId].type # "SOS" THEN 400
    ELSE IF caller \notin UserIds THEN 404
    ELSE IF ~hasAccess(caller, events[eventId].deviceId) THEN 403
    ELSE 0

\* escalateSOS checks escalatedTo after the event id and before the lookup
EscalatePrecheck(eventId, caller, escalatedTo) ==
    IF ~isValidObjectId(eventId) THEN 400
    ELSE IF escalatedTo # "" /\ ~isValidTarget(escalatedTo) THEN 400
    ELSE Precheck(eventId, caller)

\* the handler's last part: the changed document is saved; 200, or 500 when
\* save() throws
SaveAndAnswer(op, eventId, doc) ==
    /\ events' = save(events, eventId, doc)
    /\ last' = Answer(op, eventId, IF validates(doc) THEN 200 ELSE 500)

Refuse(op, eventId, code) ==
    /\ events' = events
    /\ last' = Answer(op, eventId, code)

\* the state of the push service: initialised and delivering, never
\* initialised, or initialised with sendMulticast throwing
FcmInputs == {"ready", "notInitialized", "failing"}

\* FCMService.sendMulticastNotification: the result object it returns (it
\* catches what sendMulticast throws)
sendMulticastNotification(fcmTokens, fcm) ==
    IF fcm = "notInitialized"
    THEN [success |-> FALSE, error |-> "FCM not initialized"]
    ELSE IF fcmTokens = <<>>
    THEN [success |-> FALSE, error |-> "No FCM tokens provided"]
    ELSE IF fcm = "failing"
    THEN [success |-> FALSE, error |-> "Unknown FCM error"]
    ELSE [success |-> TRUE, error |-> ""]

\* FCMService.sendSOSNotification, given an array of tokens
sendSOSNotification(fcmTokens, fcm) == sendMulticastNotification(fcmTokens, fcm)

\* an update that keeps no error text
recordFcmResult_NoError(ev, fcmResult, t) ==
    [ev EXCEPT !.notifications.fcmSent = fcmResult.success,
               !.notifications.fcmTimestamp = t]

\* sosEvent.notifications.fcmSent = ...; fcmTimestamp = new Date(); fcmError
\* = fcmResult.error when the result is a failure
recordFcmResult(ev, fcmResult, t) ==
    [ev EXCEPT !.notifications.fcmSent = fcmResult.success,
               !.notifications.fcmTimestamp = t,
               !.notifications.fcmError =
                   IF fcmResult.success THEN @ ELSE fcmResult.error]

\* the 201 answer of receiveSOS, which carries data.notificationsSent
SosAnswer(eventId, code, sent) ==
    [op |-> "receiveSOS", eventId |-> eventId, code |-> code,
     notificationsSent |-> sent]

\* SOSController.receiveSOS.  emergencyType is metadata.emergencyType of the
\* body, "" when the body has none; create() validates the document
receiveSOS(deviceId, emergencyType, fcm) ==
    /\ nreq < MaxRequests
    /\ Len(events) < MaxIncidents
    /\ LET sosEvent == createSOSEvent(sanitizeText(deviceId), now)
           type == IF emergencyType = "" THEN "manual" ELSE emergencyType
           id == Len(events) + 1
           users == userList(deviceId)
           fcmTokens == users
       IN IF type \notin EmergencyTypes \/ sosEvent.deviceId = <<>>
          THEN /\ events' = events
               /\ last' = Answer("receiveSOS", 0, 400)
          ELSE IF users = <<>>
          THEN /\ events' = Append(events, sosEvent)
               /\ last' = Answer("receiveSOS", id, 200)
          ELSE /\ events' =
                    Append(events,
                           recordFcmResult(sosEvent,
                               sendSOSNotification(fcmTokens, fcm), now))
               /\ last' = SosAnswer(id, 201, Len(fcmTokens))
    /\ nreq' = nreq + 1
    /\ UNCHANGED <<now, ticks, telemetry, handlers, router, lastSeen>>

\* Validators.validateSOS, the chain in front of receiveSOS: TRUE when no
\* rule fails
validateSOS(body) ==
    /\ trimEnd(trimStart(body.deviceId)) # <<>>
    /\ Lat(body) >= -LatMax /\ Lat(body) <= LatMax
    /\ Lon(body) >= -LonMax /\ Lon(body) <= LonMax

\* POST /api/sos: handleValidationErrors answers 400 and the controller is
\* not called; otherwise the controller gets the body with deviceId trimmed
PostSOS(body, fcm) ==
    IF validateSOS(body)
    THEN receiveSOS(trimEnd(trimStart(body.deviceId)), body.emergencyType, fcm)
    ELSE /\ nreq < MaxRequests
         /\ last' = Answer("validateSOS", 0, 400)
         /\ nreq' = nreq + 1
         /\ UNCHANGED <<events, now, ticks, telemetry, handlers, router,
                        lastSeen>>

\* POST /api/sos with a body of a device id alone, the push service
\* delivering or throwing
ReceiveSOS(deviceId, fcmOk) ==
    PostSOS([deviceId |-> deviceId, emergencyType |-> ""],
            IF fcmOk THEN "ready" ELSE "failing")

\* SOSController.acknowledgeSOS
AcknowledgeSOS(eventId, caller, note) ==
    /\ nreq < MaxRequests
    /\ LET code == Precheck(eventId, caller) IN
       IF code # 0
       THEN Refuse("acknowledge", eventId, code)
       ELSE SaveAndAnswer("acknowledge", eventId,
               acknowledge(events[eventId], caller, sanitizeText(note), now))
    /\ nreq' = nreq + 1
    /\ UNCHANGED <<now, ticks, telemetry, handlers, router, lastSeen>>

SanitizeAll(actions) == [i \in 1..Len(actions) |-> sanitizeText(actions[i])]

\* SOSController.resolveSOS
ResolveSOS(eventId, caller, resolutionNote, actions) ==
    /\ nreq < MaxRequests
    /\ LET code == Precheck(eventId, caller) IN
       IF code # 0
       THEN Refuse("resolve", eventId, code)
       ELSE SaveAndAnswer("resolve", eventId,
               resolve(events[eventId], caller, sanitizeText(resolutionNote),
                       SanitizeAll(actions), now))
    /\ nreq' = nreq + 1
    /\ UNCHANGED <<now, ticks, telemetry, handlers, router, lastSeen>>

\* SOSController.escalateSOS
EscalateSOS(eventId, caller, escalatedTo, reason, level) ==
    /\ nreq < MaxRequests
    /\ LET code == EscalatePrecheck(eventId, caller, escalatedTo)
       IN IF code # 0
          THEN Refuse("escalate", eventId, code)
          ELSE SaveAndAnswer("escalate", eventId,
                  escalate(events[eventId], escalatedTo, sanitizeText(reason),
                           level, now))
    /\ nreq' = nreq + 1
    /\ UNCHANGED <<now, ticks, telemetry, handlers, router, lastSeen>>

-----------------------------------------------------------------------------
(* The clock *)

\* the clock advances by one obstacle window or one low-battery window
TickSteps == {ObstacleWindowMs, LowBatteryWindowMs}

Tick(d, max) ==
    /\ ticks < max
    /\ now' = now + d
    /\ ticks' = ticks + 1
    /\ UNCHANGED <<events, nreq, last, telemetry, handlers, router, lastSeen>>

-----------------------------------------------------------------------------
(* The transport router: MQTTClient and the mqtt client it owns *)

\* the outcome of the promise a router method returned
Outcome(op, kind, error) == [op |-> op, kind |-> kind, error |-> error]

\* MQTTClient.constructor.  client is the state of the mqtt client ("none":
\* this.client is null); brokerSubs is what the broker holds for the session;
\* connects counts the 'connect' events; topic and invoked record the inbound
\* message handled last and the handlers it was given to; sent counts the
\* messages handed to client.publish, published the messages the broker
\* took (topic and content), notified the push notifications the handlers sent
NewRouter ==
    [client |-> "none", connected |-> FALSE, subscriptions |-> {},
     messageHandlers |-> <<>>, reconnectAttempts |-> 0, brokerSubs |-> {},
     connects |-> 0, topic |-> <<>>, invoked |-> <<>>, sent |-> 0,
     published |-> <<>>, notified |-> 0,
     result |-> Outcome("none", "none", "")]

-----------------------------------------------------------------------------
(* Spec: the SOS incident lifecycle, one request after another *)

Init ==
    /\ events = <<>>
    /\ now = 0
    /\ ticks = 0
    /\ nreq = 0
    /\ last = Answer("none", 0, 0)
    /\ telemetry = <<>>
    /\ handlers = <<>>
    /\ router = NewRouter
    /\ lastSeen = NeverSeen

Next ==
    \/ \E d \in DeviceIdInputs, ok \in BOOLEAN : ReceiveSOS(d, ok)
    \/ \E id \in EventIdInputs, r \in AcknowledgeInputs :
          AcknowledgeSOS(id, r.caller, r.note)
    \/ \E id \in EventIdInputs, r \in ResolveInputs :
          ResolveSOS(id, r.caller, r.resolutionNote, r.actions)
    \/ \E id \in EventIdInputs, r \in EscalateInputs :
          EscalateSOS(id, r.caller, r.escalatedTo, r.reason, r.level)
    \/ Tick(1, MaxTicks)

Spec == Init /\ [][Next]_vars

-----------------------------------------------------------------------------
(* Telemetry and the alert rules *)

\* telemetry payloads: sensors.battery.level, sensors.ultrasonicLeft,
\* sensors.ultrasonicRight and whether gps.lat and gps.lon are there (fix);
\* no IMU part
TelemetryInputs ==
    {[deviceId |-> <<"stick-001">>, level |-> 8, left |-> 200, right |-> 200, fix |-> FALSE],
     [deviceId |-> <<"stick-001">>, level |-> 19, left |-> 200, right |-> 200, fix |-> FALSE],
     [deviceId |-> <<"stick-001">>, level |-> 20, left |-> 200, right |-> 25, fix |-> FALSE],
     [deviceId |-> <<"stick-002">>, level |-> 15, left |-> 200, right |-> 200, fix |-> FALSE],
     [deviceId |-> <<"stick-002">>, level |-> 150, left |-> 200, right |-> 200, fix |-> FALSE]}

\* a schema without the validators of sensors.battery.level
telemetryValid_NoBatteryRange(m) ==
    /\ trimEnd(trimStart(m.deviceId)) # <<>>
    /\ m.left >= 0 /\ m.left <= UltrasonicMax
    /\ m.right >= 0 /\ m.right <= UltrasonicMax
    /\ Lat(m) >= -LatMax /\ Lat(m) <= LatMax
    /\ Lon(m) >= -LonMax /\ Lon(m) <= LonMax

\* the validators of telemetrySchema that save() runs on a document built
\* from the payload: deviceId required (after trim), the ranges of the
\* readings and of the coordinates
telemetryValid(m) ==
    /\ trimEnd(trimStart(m.deviceId)) # <<>>
    /\ m.level >= 0 /\ m.level <= BatteryLevelMax
    /\ m.left >= 0 /\ m.left <= UltrasonicMax
    /\ m.right >= 0 /\ m.right <= UltrasonicMax
    /\ Lat(m) >= -LatMax /\ Lat(m) <= LatMax
    /\ Lon(m) >= -LonMax /\ Lon(m) <= LonMax

\* the stored document; the schema trims deviceId
TelemetryRecord(m, t) ==
    [deviceId |-> trimEnd(trimStart(m.deviceId)), timestamp |-> t, level |-> m.level,
     left |-> m.left, right |-> m.right, fix |-> m.fix]

\* the query without its deviceId part
RecentAlert_AnyDevice(evs, type, deviceId, t, window) ==
    \E i \in DOMAIN evs :
        /\ evs[i].type = type
        /\ evs[i].timestamp >= t - window

\* the query with the window laid into the future (Date.now() + window)
RecentAlert_FutureWindow(evs, type, deviceId, t, window) ==
    \E i \in DOMAIN evs :
        /\ evs[i].type = type
        /\ evs[i].deviceId = deviceId
        /\ evs[i].timestamp >= t + window

\* Event.findOne({type, deviceId, timestamp: {$gte: t - window}}): is there one
RecentAlert(evs, type, deviceId, t, window) ==
    \E i \in DOMAIN evs :
        /\ evs[i].type = type
        /\ evs[i].deviceId = deviceId
        /\ evs[i].timestamp >= t - window

LowBatteryEvent(deviceId, level, t) ==
    NewEvent("LOW_BATTERY", deviceId,
             IF level < LowBatteryHighBelow THEN "high" ELSE "medium", t, level)

\* MQTTClient.handleLowBatteryAlert: the collection afterwards
handleLowBatteryAlert(evs, deviceId, level, t) ==
    IF RecentAlert(evs, "LOW_BATTERY", deviceId, t, LowBatteryWindowMs)
    THEN evs
    ELSE Append(evs, LowBatteryEvent(deviceId, level, t))

\* MQTTClient.handleObstacleAlert: the collection afterwards
handleObstacleAlert(evs, deviceId, distance, t) ==
    IF RecentAlert(evs, "OBSTACLE_DETECTED", deviceId, t, ObstacleWindowMs)
    THEN evs
    ELSE Append(evs,
            NewEvent("OBSTACLE_DETECTED", deviceId,
                     IF distance < ObstacleHighBelowMqtt THEN "high" ELSE "medium",
                     t, distance))

\* x || 1000
OrDefault(x) == IF x = 0 THEN UltrasonicDefault ELSE x

\* MQTTClient.checkCriticalSensorReadings (no IMU part in the payloads)
checkCriticalSensorReadings(evs, m, t) ==
    IF m.left < ObstacleThreshold \/ m.right < ObstacleThreshold
    THEN Append(evs,
            NewEvent("OBSTACLE_DETECTED", m.deviceId, "medium", t,
                     MathMin(OrDefault(m.left), OrDefault(m.right))))
    ELSE evs

\* Telemetry.findOne({deviceId, timestamp: {$lt: t}, "gps.lat": {$exists},
\* "gps.lon": {$exists}}).sort({timestamp: -1}): is there one
previousTelemetry(recs, deviceId, t) ==
    \E k \in DOMAIN recs :
        /\ recs[k].deviceId = deviceId
        /\ recs[k].timestamp < t
        /\ recs[k].fix

\* TelemetryController.checkForAlerts (no IMU part); recs is the telemetry
\* collection with the new record saved
checkForAlerts(evs, recs, m, t) ==
    LET lowBattery ==
            IF m.level # 0 /\ m.level < LowBatteryThreshold
            THEN <<NewEvent("LOW_BATTERY", m.deviceId,
                            IF m.level < LowBatteryHighBelow THEN "high"
                            ELSE "medium", t, m.level)>>
            ELSE <<>>
        minDistance == MathMin(OrDefault(m.left), OrDefault(m.right))
        obstacle ==
            IF minDistance < ObstacleThreshold
            THEN <<NewEvent("OBSTACLE_DETECTED", m.deviceId,
                            IF minDistance < ObstacleHighBelowHttp THEN "high"
                            ELSE "medium", t, minDistance)>>
            ELSE <<>>
        gpsLost ==
            IF ~m.fix /\ previousTelemetry(recs, m.deviceId, t)
            THEN <<NewEvent("GPS_LOST", m.deviceId, "medium", t, -1)>>
            ELSE <<>>
    IN evs \o lowBattery \o obstacle \o gpsLost

\* TelemetryController.receiveTelemetry.  updateOk: whether the storage
\* carries out User.findOneAndUpdate; when it throws, the catch answers 500
\* and checkForAlerts is not reached
receiveTelemetry(m, updateOk) ==
    /\ nreq < MaxMessages
    /\ LET doc == [m EXCEPT !.deviceId = sanitizeText(m.deviceId)]
       IN IF ~telemetryValid(doc)
          THEN /\ UNCHANGED <<telemetry, events, lastSeen>>
               /\ last' = Answer("receiveTelemetry", 0, 400)
          ELSE /\ telemetry' = Append(telemetry, TelemetryRecord(doc, now))
               /\ IF updateOk
                  THEN /\ lastSeen' = findOneAndUpdate(lastSeen, m.deviceId, now)
                       /\ events' = checkForAlerts(events, telemetry', m, now)
                       /\ last' = Answer("receiveTelemetry",
                                         Len(telemetry) + 1, 201)
                  ELSE /\ UNCHANGED <<events, lastSeen>>
                       /\ last' = Answer("receiveTelemetry", 0, 500)
    /\ nreq' = nreq + 1
    /\ UNCHANGED <<now, ticks, handlers, router>>

\* receiveTelemetry while the storage carries out every call
ReceiveTelemetry(m) == receiveTelemetry(m, TRUE)

\* Validators.validateTelemetry, the chain in front of receiveTelemetry: TRUE
\* when no rule fails (the device ids of the payloads are shorter than 50)
validateTelemetry(body) ==
    /\ trimEnd(trimStart(body.deviceId)) # <<>>
    /\ body.left >= 0 /\ body.left <= UltrasonicMax
    /\ body.right >= 0 /\ body.right <= UltrasonicMax
    /\ Lat(body) >= -LatMax /\ Lat(body) <= LatMax
    /\ Lon(body) >= -LonMax /\ Lon(body) <= LonMax

\* POST /api/telemetry: handleValidationErrors answers 400 "Validation
\* failed" and the controller is not called; otherwise the controller gets
\* the body with deviceId trimmed by the chain
PostTelemetry(body, updateOk) ==
    IF validateTelemetry(body)
    THEN receiveTelemetry(
             [body EXCEPT !.deviceId = trimEnd(trimStart(body.deviceId))],
             updateOk)
    ELSE /\ nreq < MaxMessages
         /\ last' = Answer("validateTelemetry", 0, 400)
         /\ nreq' = nreq + 1
         /\ UNCHANGED <<events, now, ticks, telemetry, handlers, router,
                        lastSeen>>

\* MQTTClient.handleTelemetryMessage, run to its end without interleaving.
\* updateOk: whether the storage carries out User.findOneAndUpdate; when it
\* throws, the catch logs and the alert checks are not reached
handleTelemetryMessage(m, updateOk) ==
    /\ nreq < MaxMessages
    /\ IF ~telemetryValid(m)
       THEN /\ UNCHANGED <<telemetry, events, lastSeen>>
            /\ last' = Answer("handleTelemetryMessage", 0, 0)
       ELSE /\ telemetry' = Append(telemetry, TelemetryRecord(m, now))
            /\ last' = Answer("handleTelemetryMessage", Len(telemetry) + 1, 0)
            /\ IF updateOk
               THEN /\ lastSeen' = findOneAndUpdate(lastSeen, m.deviceId, now)
                    /\ events' =
                         checkCriticalSensorReadings(
                             IF m.level < LowBatteryThreshold
                             THEN handleLowBatteryAlert(events, m.deviceId,
                                                        m.level, now)
                             ELSE events,
                             m, now)
               ELSE UNCHANGED <<events, lastSeen>>
    /\ nreq' = nreq + 1
    /\ UNCHANGED <<now, ticks, handlers, router>>

\* handleTelemetryMessage while the storage carries out every call
HandleTelemetryMessage(m) == handleTelemetryMessage(m, TRUE)

\* sonar distances handed to handleObstacleAlert
DistanceInputs == {12, 25}

\* MQTTClient.handleObstacleAlert called for a device and a distance; the id
\* of the event it created is recorded, 0 when it returned without creating
HandleObstacleAlert(deviceId, distance) ==
    /\ nreq < MaxMessages
    /\ events' = handleObstacleAlert(events, deviceId, distance, now)
    /\ last' = Answer("handleObstacleAlert",
                      IF Len(events') > Len(events) THEN Len(events') ELSE 0, 0)
    /\ nreq' = nreq + 1
    /\ UNCHANGED <<now, ticks, telemetry, handlers, router, lastSeen>>

NextAlert ==
    \/ \E m \in TelemetryInputs : ReceiveTelemetry(m)
    \/ \E m \in TelemetryInputs : HandleTelemetryMessage(m)
    \/ \E d \in Devices, x \in DistanceInputs : HandleObstacleAlert(d, x)
    \/ \E d \in TickSteps : Tick(d, MaxAlertTicks)

SpecAlert == Init /\ [][NextAlert]_vars

-----------------------------------------------------------------------------
(* SpecRace: MQTT telemetry handlers running concurrently.  handleMessage is *)
(* started for every inbound message and not awaited, so handlers interleave *)
(* at every await.                                                           *)

NoMessage == [deviceId |-> <<>>, level |-> BatteryLevelMax, left |-> UltrasonicMax,
              right |-> UltrasonicMax, fix |-> FALSE]

\* pc: where the handler stands; seen: how many events the collection held
\* when the cooldown query ran; created: the id of the LOW_BATTERY event the
\* handler created, 0 for none
IdleHandler ==
    [pc |-> "idle", msg |-> NoMessage, recent |-> FALSE, seen |-> 0,
     created |-> 0]

HandlerIds == 1..MaxHandlers

\* the messages of the concurrent handlers
RaceInputs ==
    {[deviceId |-> <<"stick-001">>, level |-> 8, left |-> 200, right |-> 200, fix |-> FALSE],
     [deviceId |-> <<"stick-001">>, level |-> 19, left |-> 200, right |-> 25, fix |-> FALSE],
     [deviceId |-> <<"stick-002">>, level |-> 15, left |-> 200, right |-> 200, fix |-> FALSE]}

\* handleMessage dispatches to handleTelemetryMessage, which parses the
\* payload and awaits telemetry.save(); handlers are numbered in the order
\* in which their messages arrive
Deliver(h, m) ==
    /\ handlers[h].pc = "idle"
    /\ \A g \in 1..(h - 1) : handlers[g].pc # "idle"
    /\ IF telemetryValid(m)
       THEN /\ telemetry' = Append(telemetry, TelemetryRecord(m, now))
            /\ handlers' = [handlers EXCEPT ![h].pc = "saved", ![h].msg = m]
       ELSE /\ telemetry' = telemetry
            /\ handlers' = [handlers EXCEPT ![h].pc = "done", ![h].msg = m]
    /\ nreq' = nreq + 1
    /\ UNCHANGED <<events, now, ticks, last, router, lastSeen>>

\* await User.findOneAndUpdate; then the low-battery test
UpdateLastSeen(h) ==
    /\ handlers[h].pc = "saved"
    /\ handlers' =
         [handlers EXCEPT
            ![h].pc = IF handlers[h].msg.level < LowBatteryThreshold
                      THEN "cooldown" ELSE "critical"]
    /\ lastSeen' = findOneAndUpdate(lastSeen, handlers[h].msg.deviceId, now)
    /\ UNCHANGED <<events, now, ticks, nreq, last, telemetry, router>>

\* a cooldown check that skips the creation of a suppressed alert but goes on
\* to the notification
ReadCooldown_NotifiesSuppressed(h) ==
    /\ handlers[h].pc = "cooldown"
    /\ LET recent == RecentAlert(events, "LOW_BATTERY", handlers[h].msg.deviceId,
                                 now, LowBatteryWindowMs)
       IN handlers' =
            [handlers EXCEPT
               ![h].recent = recent,
               ![h].seen = Len(events),
               ![h].pc = IF recent THEN "notify" ELSE "create"]
    /\ UNCHANGED <<events, now, ticks, nreq, last, telemetry, router, lastSeen>>

\* handleLowBatteryAlert: await Event.findOne(...), then if (recentAlert) return
ReadCooldown(h) ==
    /\ handlers[h].pc = "cooldown"
    /\ LET recent == RecentAlert(events, "LOW_BATTERY", handlers[h].msg.deviceId,
                                 now, LowBatteryWindowMs)
       IN handlers' =
            [handlers EXCEPT
               ![h].recent = recent,
               ![h].seen = Len(events),
               ![h].pc = IF recent THEN "critical" ELSE "create"]
    /\ UNCHANGED <<events, now, ticks, nreq, last, telemetry, router, lastSeen>>

\* handleLowBatteryAlert: await Event.create(...)
CreateAlert(h) ==
    /\ handlers[h].pc = "create"
    /\ events' = Append(events,
                    LowBatteryEvent(handlers[h].msg.deviceId,
                                    handlers[h].msg.level, now))
    /\ handlers' = [handlers EXCEPT ![h].pc = "notify",
                                    ![h].created = Len(events) + 1]
    /\ UNCHANGED <<now, ticks, nreq, last, telemetry, router, lastSeen>>

\* handleLowBatteryAlert: the recipients are looked up and, if one of them
\* holds a token, fcmService.sendMulticastNotification is called once
Notify(h) ==
    /\ handlers[h].pc = "notify"
    /\ handlers' = [handlers EXCEPT ![h].pc = "critical"]
    /\ router' = [router EXCEPT
                     !.notified =
                        IF userList(handlers[h].msg.deviceId) # <<>>
                        THEN @ + 1 ELSE @]
    /\ UNCHANGED <<events, now, ticks, nreq, last, telemetry, lastSeen>>

\* await this.checkCriticalSensorReadings(deviceId, telemetryData)
CheckCritical(h) ==
    /\ handlers[h].pc = "critical"
    /\ events' = checkCriticalSensorReadings(events, handlers[h].msg, now)
    /\ handlers' = [handlers EXCEPT ![h].pc = "done"]
    /\ UNCHANGED <<now, ticks, nreq, last, telemetry, router, lastSeen>>

InitRace ==
    /\ events = <<>>
    /\ now = 0
    /\ ticks = 0
    /\ nreq = 0
    /\ last = Answer("none", 0, 0)
    /\ telemetry = <<>>
    /\ handlers = [h \in HandlerIds |-> IdleHandler]
    /\ router = NewRouter
    /\ lastSeen = NeverSeen

NextRace ==
    \/ \E h \in HandlerIds, m \in RaceInputs : Deliver(h, m)
    \/ \E h \in HandlerIds : UpdateLastSeen(h)
    \/ \E h \in HandlerIds : ReadCooldown(h)
    \/ \E h \in HandlerIds : CreateAlert(h)
    \/ \E h \in HandlerIds : Notify(h)
    \/ \E h \in HandlerIds : CheckCritical(h)
    \/ Tick(LowBatteryWindowMs + 1, MaxRaceTicks)

SpecRace == InitRace /\ [][NextRace]_vars

\* the low-battery messages whose notifications are counted: one device with
\* a recipient that holds a token, one without
NotifyInputs ==
    {[deviceId |-> <<"stick-001">>, level |-> 8, left |-> 200, right |-> 200, fix |-> FALSE],
     [deviceId |-> <<"stick-002">>, level |-> 15, left |-> 200, right |-> 200, fix |-> FALSE]}

\* SpecNotify: the concurrent handlers of SpecRace over low-battery messages
\* only, with the cooldown window passing between them
NextNotify ==
    \/ \E h \in HandlerIds, m \in NotifyInputs : Deliver(h, m)
    \/ \E h \in HandlerIds : UpdateLastSeen(h)
    \/ \E h \in HandlerIds : ReadCooldown(h)
    \/ \E h \in HandlerIds : CreateAlert(h)
    \/ \E h \in HandlerIds : Notify(h)
    \/ \E h \in HandlerIds : CheckCritical(h)
    \/ Tick(LowBatteryWindowMs + 1, MaxRaceTicks)

SpecNotify == InitRace /\ [][NextNotify]_vars

-----------------------------------------------------------------------------
(* SpecRules: the alert rules applied to one message after another, on the   *)
(* HTTP path and on the MQTT path, over a range of readings and over the     *)
(* telemetry histories that earlier MQTT messages can have left behind.      *)

\* a stored record of an earlier message with unremarkable readings
HistoryRecord(deviceId, fix, t) ==
    [deviceId |-> deviceId, timestamp |-> t, level |-> 50, left |-> 200,
     right |-> 200, fix |-> fix]

\* readings around the thresholds of the rules, for stick-001
RuleInputs ==
    {[deviceId |-> <<"stick-001">>, level |-> l, left |-> 200, right |-> 200,
      fix |-> TRUE] : l \in {0, 9, 10, 19, 20, 100, 101}}
    \cup
    {[deviceId |-> <<"stick-001">>, level |-> 50, left |-> p[1], right |-> p[2],
      fix |-> TRUE] :
        p \in {<<0, 200>>, <<14, 200>>, <<200, 15>>, <<29, 29>>,
               <<30, 200>>, <<1000, 30>>}}
    \cup
    {[deviceId |-> <<"stick-001">>, level |-> 50, left |-> 200, right |-> 200,
      fix |-> FALSE]}

InitRules ==
    /\ events = <<>>
    /\ now = MaxHistory + 1
    /\ ticks = 0
    /\ nreq = 0
    /\ last = Answer("none", 0, 0)
    /\ \E n \in 0..MaxHistory :
          \E h \in [1..n -> Devices \X BOOLEAN] :
             telemetry = [k \in 1..n |-> HistoryRecord(h[k][1], h[k][2], k)]
    /\ handlers = <<>>
    /\ router = NewRouter
    /\ lastSeen = NeverSeen

NextRules ==
    \/ \E m \in RuleInputs : nreq < MaxRuleMessages /\ ReceiveTelemetry(m)
    \/ \E m \in RuleInputs : nreq < MaxRuleMessages /\ HandleTelemetryMessage(m)

SpecRules == InitRules /\ [][NextRules]_vars

-----------------------------------------------------------------------------
(* SpecRouter: the transport router, its connection events, its methods and  *)
(* the inbound messages it dispatches.  A topic is a text in pieces, "/"     *)
(* being the separator piece.                                                *)

\* String.prototype.split("/"): the segments, empty ones included
RECURSIVE split(_)
split(s) ==
    IF s = <<>> THEN << <<>> >>
    ELSE LET rest == split(Tail(s))
         IN IF Head(s) = "/"
            THEN << <<>> >> \o rest
            ELSE << <<Head(s)>> \o Head(rest) >> \o Tail(rest)

\* a pattern that matches whenever the pattern is a prefix of the topic
topicMatches_NoLengthCheck(topic, pattern) ==
    LET topicParts == split(topic)
        patternParts == split(pattern)
    IN \A i \in 1..Len(patternParts) :
          \/ patternParts[i] = <<"+">>
          \/ (i <= Len(topicParts) /\ patternParts[i] = topicParts[i])

\* MQTTClient.topicMatches
topicMatches(topic, pattern) ==
    LET topicParts == split(topic)
        patternParts == split(pattern)
    IN IF Len(topicParts) # Len(patternParts)
       THEN FALSE
       ELSE \A i \in 1..Len(patternParts) :
               ~(patternParts[i] # <<"+">> /\ patternParts[i] # topicParts[i])

\* extractDeviceId: topic.split("/")[1], undefined (here the empty text) when
\* the topic has a single segment
extractDeviceId(topic) ==
    LET parts == split(topic)
    IN IF Len(parts) >= 2 THEN parts[2] ELSE <<>>

Pattern(leaf) == <<"smartstick", "/", "+", "/", leaf>>

\* setupSubscriptions: the patterns and handlers it registers, in its order
DefaultSubscriptions ==
    <<[pattern |-> <<"smartstick", "/", "+", "/", "sensors", "/", "sonar">>,
       handler |-> "handleSonarData"],
      [pattern |-> <<"smartstick", "/", "+", "/", "sensors", "/", "ir">>,
       handler |-> "handleIRData"],
      [pattern |-> <<"smartstick", "/", "+", "/", "sensors", "/", "gps">>,
       handler |-> "handleGPSData"],
      [pattern |-> <<"smartstick", "/", "+", "/", "sensors", "/", "imu">>,
       handler |-> "handleIMUData"],
      [pattern |-> Pattern("telemetry"), handler |-> "handleTelemetryMessage"],
      [pattern |-> Pattern("sos"), handler |-> "handleSOSMessage"],
      [pattern |-> Pattern("status"), handler |-> "handleStatusMessage"],
      [pattern |-> Pattern("response"), handler |-> "handleResponseMessage"]>>

\* a table that takes every registration as a new entry
mapSet_Appends(mh, pattern, handler) ==
    Append(mh, [pattern |-> pattern, handler |-> handler])

\* Map.prototype.set: a known key keeps its place, a new key goes last
mapSet(mh, pattern, handler) ==
    IF \E i \in DOMAIN mh : mh[i].pattern = pattern
    THEN [i \in DOMAIN mh |->
            IF mh[i].pattern = pattern
            THEN [pattern |-> pattern, handler |-> handler]
            ELSE mh[i]]
    ELSE Append(mh, [pattern |-> pattern, handler |-> handler])

\* subscribe that registers before it looks at the connection
subscribe_RegistersFirst(r, pattern, handler, brokerOk) ==
    LET reg == [r EXCEPT !.subscriptions = @ \cup {pattern},
                         !.messageHandlers =
                            IF handler = "" THEN @
                            ELSE mapSet(@, pattern, handler)]
    IN IF ~r.connected
       THEN [reg EXCEPT !.result =
                Outcome("subscribe", "rejected", "MQTT client not connected")]
       ELSE IF ~brokerOk
       THEN [reg EXCEPT !.result = Outcome("subscribe", "rejected", "broker")]
       ELSE [reg EXCEPT !.brokerSubs = @ \cup {pattern},
                        !.result = Outcome("subscribe", "resolved", "")]

\* MQTTClient.subscribe(topic, handler): the router afterwards; handler "" is
\* the default null, brokerOk the broker's answer in the callback
subscribe(r, pattern, handler, brokerOk) ==
    IF ~r.connected
    THEN [r EXCEPT !.result =
             Outcome("subscribe", "rejected", "MQTT client not connected")]
    ELSE IF ~brokerOk
    THEN [r EXCEPT !.result = Outcome("subscribe", "rejected", "broker")]
    ELSE [r EXCEPT !.subscriptions = @ \cup {pattern},
                   !.messageHandlers =
                      IF handler = "" THEN @ ELSE mapSet(@, pattern, handler),
                   !.brokerSubs = @ \cup {pattern},
                   !.result = Outcome("subscribe", "resolved", "")]

\* what the broker took
Published(topic, message) == [topic |-> topic, message |-> message]

\* MQTTClient.publish(topic, message): the router afterwards
publish(r, topic, message, brokerOk) ==
    IF ~r.connected
    THEN [r EXCEPT !.result =
             Outcome("publish", "rejected", "MQTT client not connected")]
    ELSE IF ~brokerOk
    THEN [r EXCEPT !.sent = @ + 1,
                   !.result = Outcome("publish", "rejected", "broker")]
    ELSE [r EXCEPT !.sent = @ + 1,
                   !.published = Append(@, Published(topic, message)),
                   !.result = Outcome("publish", "resolved", "")]

\* setupSubscriptions: the subscribe calls one after another; the first one
\* the broker refuses throws into the catch and the rest is not attempted.
\* accepted is the number of calls the broker acknowledges.
RECURSIVE setupSubscriptions(_, _, _)
setupSubscriptions(r, todo, accepted) ==
    IF todo = <<>> THEN r
    ELSE LET next == subscribe(r, Head(todo).pattern, Head(todo).handler,
                               accepted > 0)
         IN IF next.result.kind = "rejected" THEN next
            ELSE setupSubscriptions(next, Tail(todo), accepted - 1)

\* how many of the calls of setupSubscriptions the broker acknowledges
AcceptedInputs == {0, 5, Len(DefaultSubscriptions)}

\* app startup: mqttClient.connect() creates the client, which starts
\* connecting
Connect ==
    /\ router.client = "none"
    /\ router' = [router EXCEPT !.client = "connecting"]
    /\ UNCHANGED <<events, now, ticks, nreq, last, telemetry, handlers, lastSeen>>

\* the mqtt client with the options of config.mqtt (clean: true, resubscribe
\* left at its default): on a connect other than the first it subscribes
\* again to every topic it was subscribed to
resubscribe(r) ==
    IF r.connects > 0
    THEN [r EXCEPT !.brokerSubs = @ \cup r.subscriptions]
    ELSE r

\* 'connect' listeners that leave the attempt counter as it is
OnConnect_KeepsAttempts(accepted) ==
    /\ router.client \in {"connecting", "reconnecting"}
    /\ router.connects < MaxConnects
    /\ router' =
         setupSubscriptions(
             [resubscribe(router) EXCEPT !.client = "online",
                                         !.connected = TRUE,
                                         !.connects = @ + 1],
             DefaultSubscriptions, accepted)
    /\ UNCHANGED <<events, now, ticks, nreq, last, telemetry, handlers, lastSeen>>

\* the client's 'connect' event: the listener of setupEventHandlers and the
\* listener of connect(), which runs setupSubscriptions
OnConnect(accepted) ==
    /\ router.client \in {"connecting", "reconnecting"}
    /\ router.connects < MaxConnects
    /\ router' =
         setupSubscriptions(
             [resubscribe(router) EXCEPT !.client = "online",
                                         !.connected = TRUE,
                                         !.reconnectAttempts = 0,
                                         !.connects = @ + 1],
             DefaultSubscriptions, accepted)
    /\ UNCHANGED <<events, now, ticks, nreq, last, telemetry, handlers, lastSeen>>

\* the client's 'disconnect' event (the broker sent DISCONNECT); the client
\* then closes the connection
OnDisconnect ==
    /\ router.client = "online"
    /\ router' = [router EXCEPT !.connected = FALSE, !.client = "closing"]
    /\ UNCHANGED <<events, now, ticks, nreq, last, telemetry, handlers, lastSeen>>

\* an 'offline' handler that forgets the handler table with the connection
OnOffline_ClearsHandlers ==
    /\ router.client \in {"online", "closing"}
    /\ router' = [router EXCEPT !.connected = FALSE, !.client = "offline",
                                !.brokerSubs = {}, !.messageHandlers = <<>>]
    /\ UNCHANGED <<events, now, ticks, nreq, last, telemetry, handlers, lastSeen>>

\* the client's 'offline' event: the connection is lost and with it the
\* session (clean: true); the client will retry every reconnectPeriod
OnOffline ==
    /\ router.client \in {"online", "closing"}
    /\ router' = [router EXCEPT !.connected = FALSE, !.client = "offline",
                                !.brokerSubs = {}]
    /\ UNCHANGED <<events, now, ticks, nreq, last, telemetry, handlers, lastSeen>>

\* a limit that does not exist (a misspelt property reads undefined)
exceeded_UndefinedLimit(attempts) == FALSE

\* this.reconnectAttempts > this.maxReconnectAttempts
exceeded(attempts) == attempts > maxReconnectAttempts

\* the client's 'reconnect' event, at the start of every retry
OnReconnect ==
    /\ router.client = "offline"
    /\ LET attempts == router.reconnectAttempts + 1
       IN router' = [router EXCEPT
                        !.reconnectAttempts = attempts,
                        !.client = IF exceeded(attempts) THEN "ended"
                                   ELSE "reconnecting"]
    /\ UNCHANGED <<events, now, ticks, nreq, last, telemetry, handlers, lastSeen>>

\* a retry that fails: the client closes the stream and waits for the next
OnClose ==
    /\ router.client = "reconnecting"
    /\ router' = [router EXCEPT !.client = "offline"]
    /\ UNCHANGED <<events, now, ticks, nreq, last, telemetry, handlers, lastSeen>>

\* a scan that goes on after the first match
RECURSIVE handleMessage_NoReturn(_, _)
handleMessage_NoReturn(mh, topic) ==
    IF mh = <<>> THEN <<>>
    ELSE (IF topicMatches(topic, Head(mh).pattern)
          THEN <<Head(mh).handler>> ELSE <<>>)
         \o handleMessage_NoReturn(Tail(mh), topic)

\* MQTTClient.handleMessage: the handlers the message is given to, scanning
\* the Map in insertion order and returning after the first match
RECURSIVE handleMessage(_, _)
handleMessage(mh, topic) ==
    IF mh = <<>> THEN <<>>
    ELSE IF topicMatches(topic, Head(mh).pattern)
    THEN <<Head(mh).handler>>
    ELSE handleMessage(Tail(mh), topic)

Reading(level, left, right) ==
    [deviceId |-> <<>>, level |-> level, left |-> left, right |-> right,
     fix |-> FALSE]

\* the objects the payloads spell out, by the name of their text
JSONValue(text) ==
    CASE text = "battery 8, sonar 200/25" -> Reading(8, 200, 25)
      [] text = "battery 8" -> Reading(8, 200, 200)
      [] text = "sonar 25/200" -> Reading(50, 25, 200)
      [] OTHER -> Reading(50, 200, 200)

\* JSON.parse of a payload in tokens: an object text in braces parses,
\* anything else throws
JSONParse(payload) ==
    IF Len(payload) = 3 /\ payload[1] = "{" /\ payload[3] = "}"
    THEN [ok |-> TRUE, value |-> JSONValue(payload[2])]
    ELSE [ok |-> FALSE, value |-> NoMessage]

\* the reading of a sensor the payload does not carry (undefined)
NoReading == -1

\* required deviceId, and the ranges of the readings that are there
recordValid(m) ==
    /\ m.deviceId # <<>>
    /\ m.level = NoReading \/ (m.level >= 0 /\ m.level <= BatteryLevelMax)
    /\ m.left >= 0 /\ m.left <= UltrasonicMax
    /\ m.right >= 0 /\ m.right <= UltrasonicMax

Stores(evs, recs, notified) ==
    [events |-> evs, telemetry |-> recs, notified |-> notified]

\* `smartstick/mobile/${user._id}/${leaf}`
MobileTopic(user, leaf) == <<"smartstick", "/", "mobile", "/", user, "/", leaf>>

\* what a loop of publishes leaves: the router, and whether a publish threw
Fanout(r, thrown) == [router |-> r, thrown |-> thrown]

\* for (const user of users) { await this.publish(topic, {...}) }: the k-th
\* publish of the call is refused by the broker when k is in fails; a
\* rejected publish throws out of the loop
RECURSIVE publishToUsers(_, _, _, _, _, _)
publishToUsers(r, users, k, fails, leaf, message) ==
    IF users = <<>> THEN Fanout(r, FALSE)
    ELSE LET next == publish(r, MobileTopic(Head(users), leaf),
                             [message EXCEPT !.userId = Head(users)],
                             k \notin fails)
         IN IF next.result.kind = "rejected" THEN Fanout(next, TRUE)
            ELSE publishToUsers(next, Tail(users), k + 1, fails, leaf, message)

\* MQTTClient.publishSOSToMobileApp: the router afterwards.  The broadcast
\* publish stands inside the same try as the loop
publishSOSToMobileApp(r, deviceId, users, fails) ==
    LET loop == publishToUsers(r, users, 1, fails, "sos",
                    [type |-> "SOS_ALERT", deviceId |-> deviceId, userId |-> ""])
    IN IF loop.thrown THEN loop.router
       ELSE publish(loop.router, MobileTopic("broadcast", "sos"),
                    [type |-> "SOS_ALERT", deviceId |-> deviceId, userId |-> ""],
                    (Len(users) + 1) \notin fails)

\* what a handler leaves: the event collection, the router, and how many
\* multicast notifications the push service delivered
Handled(evs, r, notified) == [events |-> evs, router |-> r, notified |-> notified]

\* MQTTClient.handleSOSMessage after the payload parsed: createSOSEvent is
\* called with emergencyType "button_press", which create() validates
\* against the schema; a ValidationError goes to the handler's catch
handleSOSMessage(evs, r, deviceId, fcm, fails, t) ==
    LET sosEvent == createSOSEvent(deviceId, t)
        users == userList(deviceId)
        fcmResult == sendSOSNotification(users, fcm)
    IN IF "button_press" \notin EmergencyTypes
          \/ trimEnd(trimStart(deviceId)) = <<>>
       THEN Handled(evs, r, 0)
       ELSE IF users = <<>>
       THEN Handled(Append(evs, sosEvent), r, 0)
       ELSE Handled(Append(evs, recordFcmResult(sosEvent, fcmResult, t)),
                    publishSOSToMobileApp(r, deviceId, users, fails),
                    IF fcmResult.success THEN 1 ELSE 0)

\* the acceleration magnitude of a fall
FallMagnitude == 25

\* MQTTClient.handleFallDetection: the event, the multicast notification
\* (its result is not looked at) and the loop of publishes, all in one try
handleFallDetection(evs, r, deviceId, fcm, fails, t) ==
    LET users == userList(deviceId)
        fcmResult == sendMulticastNotification(users, fcm)
    IN IF trimEnd(trimStart(deviceId)) = <<>> THEN Handled(evs, r, 0)
       ELSE Handled(
                Append(evs, NewEvent("FALL_DETECTED", deviceId, "critical", t,
                                     FallMagnitude)),
                publishToUsers(r, users, 1, fails, "alert",
                    [type |-> "FALL_ALERT", deviceId |-> deviceId,
                     userId |-> ""]).router,
                IF users # <<>> /\ fcmResult.success THEN 1 ELSE 0)

\* a handler that stores what it was given before it parses it
runHandler_StoresBeforeParse(handler, topic, payload, evs, recs, t) ==
    Stores(evs,
           Append(recs, TelemetryRecord(
               [NoMessage EXCEPT !.deviceId = extractDeviceId(topic)], t)),
           0)

\* the handler's body run to its end: what it leaves in the collections and
\* how many push notifications it sends.  Modelled: handleTelemetryMessage,
\* handleSonarData, handleSOSMessage; a handler registered by a caller has no
\* effect on the collections.
runHandler(handler, topic, payload, evs, recs, t) ==
    LET parsed == JSONParse(payload)
        deviceId == extractDeviceId(topic)
        m == [parsed.value EXCEPT !.deviceId = deviceId]
        sonar == [m EXCEPT !.level = NoReading, !.fix = FALSE]
    IN IF handler \notin {"handleTelemetryMessage", "handleSonarData",
                          "handleSOSMessage"}
          \/ ~parsed.ok
       THEN Stores(evs, recs, 0)
       ELSE IF handler = "handleTelemetryMessage"
       THEN IF ~recordValid(m) THEN Stores(evs, recs, 0)
            ELSE LET low == IF m.level < LowBatteryThreshold
                            THEN handleLowBatteryAlert(evs, deviceId, m.level, t)
                            ELSE evs
                 IN Stores(checkCriticalSensorReadings(low, m, t),
                           Append(recs, TelemetryRecord(m, t)),
                           IF Len(low) > Len(evs)
                              /\ findUsersWithFCMByDevice(deviceId) # {}
                           THEN 1 ELSE 0)
       ELSE IF handler = "handleSonarData"
       THEN IF ~recordValid(sonar) THEN Stores(evs, recs, 0)
            ELSE Stores(evs, Append(recs, TelemetryRecord(sonar, t)), 0)
       ELSE \* handleSOSMessage, the push service delivering; what it
            \* publishes is not followed here
            LET sos == handleSOSMessage(evs, NewRouter, deviceId, "ready", {}, t)
            IN Stores(sos.events, recs, sos.notified)

Topic(a, b) == <<"smartstick", "/", a, "/", b>>

\* the inbound messages: topic and payload
InboundInputs ==
    {[topic |-> Topic("stick-001", "telemetry"),
      payload |-> <<"{", "battery 8, sonar 200/25", "}">>],
     [topic |-> Topic("stick-001", "telemetry"),
      payload |-> <<"{", "battery 8, sonar 200/25">>],
     [topic |-> Topic("stick-001", "sos"), payload |-> <<"{", "sos", "}">>],
     [topic |-> Topic("stick-001", "sos"), payload |-> <<>>],
     [topic |-> <<"smartstick", "/", "stick-001", "/", "sensors", "/", "sonar">>,
      payload |-> <<"{", "sonar 25/200", "}">>],
     [topic |-> <<"smartstick", "/", "/", "telemetry">>,
      payload |-> <<"{", "battery 8", "}">>],
     [topic |-> <<"smartstick", "/", "telemetry">>,
      payload |-> <<"{", "battery 8", "}">>],
     [topic |-> <<"smartstick", "/", "stick-001", "/", "telemetry", "/">>,
      payload |-> <<"{", "battery 8", "}">>],
     [topic |-> <<"other", "/", "x">>, payload |-> <<"not json">>]}

\* subscriptions other modules add beside the default ones; handler "" is
\* subscribe(topic) without a handler
SubscribeInputs ==
    {[pattern |-> <<"smartstick", "/", "+", "/", "+">>, handler |-> "custom"],
     [pattern |-> <<"other", "/", "x">>, handler |-> ""]}

PublishInputs == {<<"stick", "/", "stick-001", "/", "command">>}

\* a caller awaits mqttClient.subscribe(pattern, handler)
Subscribe(pattern, handler, brokerOk) ==
    /\ nreq < MaxRouterCalls
    /\ router.client # "none"
    /\ router' = subscribe(router, pattern, handler, brokerOk)
    /\ nreq' = nreq + 1
    /\ UNCHANGED <<events, now, ticks, last, telemetry, handlers, lastSeen>>

\* a caller awaits mqttClient.publish(topic, message)
Publish(topic, brokerOk) ==
    /\ nreq < MaxRouterCalls
    /\ router.client # "none"
    /\ router' = publish(router, topic, [type |-> "message"], brokerOk)
    /\ nreq' = nreq + 1
    /\ UNCHANGED <<events, now, ticks, last, telemetry, handlers, lastSeen>>

\* the client's 'message' event: handleMessage and the handler it awaits
HandleMessage(topic, payload) ==
    /\ nreq < MaxRouterCalls
    /\ router.client = "online"
    /\ LET invoked == handleMessage(router.messageHandlers, topic)
           after == IF invoked = <<>>
                    THEN Stores(events, telemetry, 0)
                    ELSE runHandler(invoked[1], topic, payload, events,
                                    telemetry, now)
       IN /\ events' = after.events
          /\ telemetry' = after.telemetry
          /\ lastSeen' = IF Len(after.telemetry) > Len(telemetry)
                         THEN findOneAndUpdate(lastSeen,
                                               extractDeviceId(topic), now)
                         ELSE lastSeen
          /\ router' = [router EXCEPT !.topic = topic, !.invoked = invoked,
                                      !.notified = @ + after.notified,
                                      !.result = Outcome("handleMessage",
                                                         "resolved", "")]
    /\ nreq' = nreq + 1
    /\ UNCHANGED <<now, ticks, last, handlers>>

NextRouter ==
    \/ Connect
    \/ \E accepted \in AcceptedInputs : OnConnect(accepted)
    \/ OnDisconnect
    \/ OnOffline
    \/ OnReconnect
    \/ OnClose
    \/ \E s \in SubscribeInputs, ok \in BOOLEAN :
          Subscribe(s.pattern, s.handler, ok)
    \/ \E t \in PublishInputs, ok \in BOOLEAN : Publish(t, ok)
    \/ \E i \in InboundInputs : HandleMessage(i.topic, i.payload)

SpecRouter == Init /\ [][NextRouter]_vars

-----------------------------------------------------------------------------
(* SpecIngest: telemetry ingestion over HTTP and over MQTT, with payloads    *)
(* that fail validation and a storage that can fail the last-seen update.    *)

\* request bodies and message payloads: a valid one with a low battery and
\* a near obstacle, one without device id, one of blanks only, readings and
\* coordinates out of range, a device id of angle brackets only, and a
\* valid unremarkable one
IngestInputs ==
    {[deviceId |-> <<"stick-001">>, level |-> 8, left |-> 200, right |-> 25,
      fix |-> TRUE, lat |-> 40, lon |-> -74],
     [deviceId |-> <<>>, level |-> 8, left |-> 150, right |-> 25,
      fix |-> FALSE, lat |-> 0, lon |-> 0],
     [deviceId |-> <<" ">>, level |-> 8, left |-> 200, right |-> 25,
      fix |-> FALSE, lat |-> 0, lon |-> 0],
     [deviceId |-> <<"stick-001">>, level |-> 8, left |-> 1001, right |-> 25,
      fix |-> FALSE, lat |-> 0, lon |-> 0],
     [deviceId |-> <<"stick-001">>, level |-> 101, left |-> 200, right |-> 25,
      fix |-> FALSE, lat |-> 0, lon |-> 0],
     [deviceId |-> <<"stick-001">>, level |-> 8, left |-> 200, right |-> 25,
      fix |-> TRUE, lat |-> 91, lon |-> -74],
     [deviceId |-> <<"stick-001">>, level |-> 8, left |-> 200, right |-> 25,
      fix |-> TRUE, lat |-> 40, lon |-> -181],
     [deviceId |-> <<"<", ">">>, level |-> 8, left |-> 200, right |-> 25,
      fix |-> FALSE, lat |-> 0, lon |-> 0],
     [deviceId |-> <<"stick-002">>, level |-> 50, left |-> 200, right |-> 200,
      fix |-> FALSE, lat |-> 0, lon |-> 0]}

NextIngest ==
    \/ \E m \in IngestInputs, ok \in BOOLEAN : PostTelemetry(m, ok)
    \/ \E m \in IngestInputs, ok \in BOOLEAN : handleTelemetryMessage(m, ok)
    \/ Tick(1, MaxIngestTicks)

SpecIngest == Init /\ [][NextIngest]_vars

-----------------------------------------------------------------------------
(* SpecSOS: SOS over HTTP and over MQTT, the push service in each of its     *)
(* states, and the fan-out of emergency messages to the mobile app with a    *)
(* broker that refuses some of the publishes.                                *)

\* bodies of POST /api/sos: a device with two recipients, a device whose
\* only user holds no token, no device id, an emergency type outside the
\* schema's enum, a latitude out of range
SosInputs ==
    {[deviceId |-> <<"stick-001">>, emergencyType |-> "manual", lat |-> 40,
      lon |-> -74],
     [deviceId |-> <<"stick-002">>, emergencyType |-> "", lat |-> 40,
      lon |-> -74],
     [deviceId |-> <<>>, emergencyType |-> "", lat |-> 40, lon |-> -74],
     [deviceId |-> <<"stick-001">>, emergencyType |-> "button_press",
      lat |-> 40, lon |-> -74],
     [deviceId |-> <<"stick-001">>, emergencyType |-> "manual", lat |-> 91,
      lon |-> -74]}

\* which publishes of a fan-out the broker refuses: none, the first, the
\* second, the first and the third, the first three
FailInputs == {{}, {1}, {2}, {1, 3}, {1, 2, 3}}

\* the client's 'message' event for an SOS topic with a payload that parses
HandleSOSMessage(deviceId, fcm, fails) ==
    /\ nreq < MaxSosCalls
    /\ LET after == handleSOSMessage(events, router, deviceId, fcm, fails, now)
       IN /\ events' = after.events
          /\ router' = [after.router EXCEPT !.notified = @ + after.notified]
          /\ last' = Answer("handleSOSMessage",
                            IF Len(after.events) > Len(events)
                            THEN Len(after.events) ELSE 0, 0)
    /\ nreq' = nreq + 1
    /\ UNCHANGED <<now, ticks, telemetry, handlers, lastSeen>>

\* publishSOSToMobileApp called with the users of a device
PublishSOSToMobileApp(deviceId, fails) ==
    /\ nreq < MaxSosCalls
    /\ router' = publishSOSToMobileApp(router, deviceId, userList(deviceId),
                                       fails)
    /\ last' = Answer("publishSOSToMobileApp", 0, 0)
    /\ nreq' = nreq + 1
    /\ UNCHANGED <<events, now, ticks, telemetry, handlers, lastSeen>>

\* handleFallDetection called for a device
HandleFallDetection(deviceId, fcm, fails) ==
    /\ nreq < MaxSosCalls
    /\ LET after == handleFallDetection(events, router, deviceId, fcm, fails,
                                        now)
       IN /\ events' = after.events
          /\ router' = [after.router EXCEPT !.notified = @ + after.notified]
          /\ last' = Answer("handleFallDetection", Len(after.events), 0)
    /\ nreq' = nreq + 1
    /\ UNCHANGED <<now, ticks, telemetry, handlers, lastSeen>>

NextSOS ==
    \/ \E b \in SosInputs, f \in FcmInputs : nreq < MaxSosCalls /\ PostSOS(b, f)
    \/ \E d \in Devices, f \in FcmInputs, fails \in FailInputs :
          HandleSOSMessage(d, f, fails)
    \/ \E d \in Devices, fails \in FailInputs : PublishSOSToMobileApp(d, fails)
    \/ \E d \in Devices, f \in FcmInputs, fails \in FailInputs :
          HandleFallDetection(d, f, fails)
    \/ Connect
    \/ OnConnect(Len(DefaultSubscriptions))
    \/ OnOffline
    \/ OnReconnect

SpecSOS == Init /\ [][NextSOS]_vars

-----------------------------------------------------------------------------
(* SpecCommand: command dispatch to devices: a single command, the           *)
(* emergency sequence, a status request and a bulk command, with the router  *)
(* connected or not and a broker that refuses some of the publishes.         *)

\* the pieces of device ids that consist of letters, digits, _ and - only
IdPieces == {"stick-001", "stick-002", "stick-009"}

\* a check that lets every text through
isValidDeviceId_AnyText(deviceId) == TRUE

\* Validators.isValidDeviceId: /^[a-zA-Z0-9_-]+$/ (the ids of the requests
\* are shorter than 50 characters)
isValidDeviceId(deviceId) ==
    /\ deviceId # <<>>
    /\ \A i \in DOMAIN deviceId : deviceId[i] \in IdPieces

validCommands ==
    {"vibrate", "beep", "led_on", "led_off", "status_check", "reboot"}

\* validCommands.includes(command), command a text
includes(commands, command) == Len(command) = 1 /\ command[1] \in commands

\* a connection check that always answers yes
isConnected_Always(r) == TRUE

\* MQTTClient.isConnected
isConnected(r) == r.connected

\* parameter values: a string, or a number in its decimal digits
Str(text) == [kind |-> "string", text |-> text]

Num(digits) == [kind |-> "number", text |-> <<digits>>]

\* typeof value === "string" ? Validators.sanitizeText(value) : value
sanitizeValue(v) ==
    IF v.kind = "string" THEN [v EXCEPT !.text = sanitizeText(@)] ELSE v

\* the loop over Object.entries(parameters)
sanitizeParameters(parameters) ==
    [k \in DOMAIN parameters |-> sanitizeValue(parameters[k])]

\* metadata.commandParameters is a Map of String: every value is cast to a
\* string when the document is built
commandParameters(parameters) ==
    [k \in DOMAIN parameters |-> Str(parameters[k].text)]

\* no message id
NoMessageId == [ts |-> -1, rand |-> ""]

\* MQTTClient.generateMessageId: `msg_${Date.now()}_${random}`
generateMessageId(t, rand) == [ts |-> t, rand |-> rand]

\* `stick/${deviceId}/command`
CommandTopic(deviceId) == <<"stick", "/">> \o deviceId \o <<"/", "command">>

\* a COMMAND_SENT document.  messageId is the one kept in
\* metadata.additionalData; the schema has no metadata.messageId, so the
\* controllers' entries keep none
CommandEvent(deviceId, userId, severity, command, parameters, messageId, t) ==
    [userId |-> userId, command |-> command,
     commandParameters |-> commandParameters(parameters),
     messageId |-> messageId]
    @@ NewEvent("COMMAND_SENT", deviceId, severity, t, -1)

\* what MQTTClient.sendCommand leaves and returns
Sent(evs, r, success, messageId, error) ==
    [events |-> evs, router |-> r,
     result |-> [success |-> success, messageId |-> messageId, error |-> error]]

\* MQTTClient.sendCommand: publish, then Event.create; a rejected publish
\* and a rejected create are caught alike and turned into
\* {success: false, error}.  createOk: the store takes the entry
sendCommandStored(evs, r, deviceId, command, parameters, rand, brokerOk, createOk, t) ==
    LET messageId == generateMessageId(t, rand)
        after == publish(r, CommandTopic(deviceId),
                         [command |-> command, parameters |-> parameters,
                          timestamp |-> t, messageId |-> messageId],
                         brokerOk)
    IN IF after.result.kind = "rejected"
       THEN Sent(evs, after, FALSE, NoMessageId, after.result.error)
       ELSE IF ~createOk
       THEN Sent(evs, after, FALSE, NoMessageId, "store")
       ELSE Sent(Append(evs, CommandEvent(deviceId, "", "low", command,
                                          parameters, messageId, t)),
                 after, TRUE, messageId, "")

\* MQTTClient.sendCommand as the controllers of SpecCommand call it, with a
\* store that takes every entry
sendCommand(evs, r, deviceId, command, parameters, rand, brokerOk, t) ==
    sendCommandStored(evs, r, deviceId, command, parameters, rand, brokerOk,
                      TRUE, t)

\* the answer of a dispatch request
CommandAnswer(op, code, messageId) ==
    [op |-> op, eventId |-> 0, code |-> code, messageId |-> messageId]

\* the checks of sendCommand, sendEmergencyCommands and getDeviceStatus in
\* front of the connection check: the status code they answer, 0 when all pass
DevicePrecheck(deviceId, caller) ==
    IF ~isValidDeviceId(deviceId) THEN 400
    ELSE IF caller \notin UserIds THEN 404
    ELSE IF ~hasAccess(caller, deviceId) THEN 403
    ELSE 0

\* a request answered without any effect
RefuseCommand(op, code) ==
    /\ last' = CommandAnswer(op, code, NoMessageId)
    /\ UNCHANGED <<events, router>>

\* CommandController.sendCommand
SendCommand(deviceId, caller, command, parameters, rand, brokerOk) ==
    /\ nreq < MaxCommandCalls
    /\ LET code == DevicePrecheck(deviceId, caller)
           sanitizedParameters == sanitizeParameters(parameters)
           sent == sendCommand(events, router, deviceId, command[1],
                               sanitizedParameters, rand, brokerOk, now)
       IN IF code # 0 THEN RefuseCommand("sendCommand", code)
          ELSE IF ~includes(validCommands, command)
          THEN RefuseCommand("sendCommand", 400)
          ELSE IF ~isConnected(router)
          THEN RefuseCommand("sendCommand", 503)
          ELSE IF ~sent.result.success
          THEN /\ events' = sent.events
               /\ router' = sent.router
               /\ last' = CommandAnswer("sendCommand", 500, NoMessageId)
          ELSE /\ events' =
                    Append(sent.events,
                           CommandEvent(deviceId, caller, "low", command[1],
                                        sanitizedParameters, NoMessageId, now))
               /\ router' = sent.router
               /\ last' = CommandAnswer("sendCommand", 200,
                                        sent.result.messageId)
    /\ nreq' = nreq + 1
    /\ UNCHANGED <<now, ticks, telemetry, handlers, lastSeen>>

\* Validators.validateCommand: body("command").trim().isIn([...])
validateCommand(command) == includes(validCommands, trimEnd(trimStart(command)))

\* POST /api/commands/:deviceId for a caller with a valid token:
\* handleValidationErrors answers 400 and the controller is not called;
\* otherwise the controller gets the body with command trimmed by the chain
PostCommand(deviceId, caller, command, parameters, rand, brokerOk) ==
    IF validateCommand(command)
    THEN SendCommand(deviceId, caller, trimEnd(trimStart(command)), parameters,
                     rand, brokerOk)
    ELSE /\ nreq < MaxCommandCalls
         /\ last' = CommandAnswer("validateCommand", 400, NoMessageId)
         /\ nreq' = nreq + 1
         /\ UNCHANGED <<events, now, ticks, telemetry, handlers, router,
                        lastSeen>>

\* results.filter((r) => r.success).length, counting every entry
successCount_CountsAll(results) == Len(results)

\* results.filter((r) => r.success).length
successCount(results) ==
    Cardinality({i \in DOMAIN results : results[i].success})

\* what a loop of dispatches leaves: the collections and the results list
Dispatched(evs, r, results) ==
    [events |-> evs, router |-> r, results |-> results]

\* the answer of a loop of dispatches:
\* res.status(successCount > 0 ? 200 : 500).json({success, data: {results}})
BatchAnswer(op, results) ==
    [op |-> op, eventId |-> 0,
     code |-> IF successCount(results) > 0 THEN 200 ELSE 500,
     messageId |-> NoMessageId, success |-> successCount(results) > 0,
     results |-> results]

\* the three commands of the emergency sequence, the sound first
EmergencySequence_BeepFirst(intensity, duration) ==
    <<[command |-> "beep",
       parameters |-> [pattern |-> Str(<<"emergency">>), duration |-> duration]],
      [command |-> "led_on",
       parameters |-> [pattern |-> Str(<<"emergency">>), duration |-> duration]],
      [command |-> "vibrate",
       parameters |-> [intensity |-> intensity, duration |-> duration]]>>

\* the three commands of the emergency sequence
EmergencySequence(intensity, duration) ==
    <<[command |-> "led_on",
       parameters |-> [pattern |-> Str(<<"emergency">>), duration |-> duration]],
      [command |-> "vibrate",
       parameters |-> [intensity |-> intensity, duration |-> duration]],
      [command |-> "beep",
       parameters |-> [pattern |-> Str(<<"emergency">>), duration |-> duration]]>>

\* the loop of sendEmergencyCommands: sendCommand, results.push, then
\* Event.create whatever the result was; the k-th publish is refused when k is
\* in fails
RECURSIVE emergencyLoop(_, _, _, _, _, _, _, _)
emergencyLoop(acc, deviceId, caller, commands, k, fails, rands, t) ==
    IF commands = <<>> THEN acc
    ELSE LET c == Head(commands)
             sent == sendCommand(acc.events, acc.router, deviceId, c.command,
                                 c.parameters, rands[k], k \notin fails, t)
         IN emergencyLoop(
                Dispatched(
                    Append(sent.events,
                           CommandEvent(deviceId, caller, "high", c.command,
                                        c.parameters, NoMessageId, t)),
                    sent.router,
                    Append(acc.results,
                           [command |-> c.command,
                            success |-> sent.result.success,
                            messageId |-> sent.result.messageId,
                            error |-> sent.result.error])),
                deviceId, caller, Tail(commands), k + 1, fails, rands, t)

\* CommandController.sendEmergencyCommands
SendEmergencyCommands(deviceId, caller, intensity, duration, rands, fails) ==
    /\ nreq < MaxCommandCalls
    /\ LET code == DevicePrecheck(deviceId, caller)
           after == emergencyLoop(Dispatched(events, router, <<>>), deviceId,
                                  caller, EmergencySequence(intensity, duration),
                                  1, fails, rands, now)
       IN IF code # 0 THEN RefuseCommand("sendEmergencyCommands", code)
          ELSE IF ~isConnected(router)
          THEN RefuseCommand("sendEmergencyCommands", 503)
          ELSE /\ events' = after.events
               /\ router' = after.router
               /\ last' = BatchAnswer("sendEmergencyCommands", after.results)
    /\ nreq' = nreq + 1
    /\ UNCHANGED <<now, ticks, telemetry, handlers, lastSeen>>

\* CommandController.getDeviceStatus; its own entry carries no parameters
GetDeviceStatus(deviceId, caller, rand, brokerOk) ==
    /\ nreq < MaxCommandCalls
    /\ LET code == DevicePrecheck(deviceId, caller)
           sent == sendCommand(events, router, deviceId, "status_check",
                               [requestedBy |-> Str(<<caller>>)], rand,
                               brokerOk, now)
       IN IF code # 0 THEN RefuseCommand("getDeviceStatus", code)
          ELSE IF ~isConnected(router)
          THEN RefuseCommand("getDeviceStatus", 503)
          ELSE IF ~sent.result.success
          THEN /\ events' = sent.events
               /\ router' = sent.router
               /\ last' = CommandAnswer("getDeviceStatus", 500, NoMessageId)
          ELSE /\ events' =
                    Append(sent.events,
                           CommandEvent(deviceId, caller, "low", "status_check",
                                        <<>>, NoMessageId, now))
               /\ router' = sent.router
               /\ last' = CommandAnswer("getDeviceStatus", 200,
                                        sent.result.messageId)
    /\ nreq' = nreq + 1
    /\ UNCHANGED <<now, ticks, telemetry, handlers, lastSeen>>

\* the loop of sendBulkCommands: a malformed device id gets a failure in the
\* results and is skipped (no dispatch is counted for it); an entry is created
\* after a success only
RECURSIVE bulkLoop(_, _, _, _, _, _, _, _, _)
bulkLoop(acc, deviceIds, caller, command, parameters, k, fails, rands, t) ==
    IF deviceIds = <<>> THEN acc
    ELSE LET deviceId == Head(deviceIds)
             sent == sendCommand(acc.events, acc.router, deviceId, command,
                                 parameters, rands[k], k \notin fails, t)
             pushed ==
                 Append(acc.results,
                        [deviceId |-> deviceId,
                         success |-> sent.result.success,
                         messageId |-> sent.result.messageId,
                         error |-> sent.result.error])
             next ==
                 IF ~isValidDeviceId(deviceId)
                 THEN Dispatched(acc.events, acc.router,
                                 Append(acc.results,
                                        [deviceId |-> deviceId,
                                         success |-> FALSE,
                                         messageId |-> NoMessageId,
                                         error |-> "Invalid device ID format"]))
                 ELSE IF ~sent.result.success
                 THEN Dispatched(sent.events, sent.router, pushed)
                 ELSE Dispatched(
                          Append(sent.events,
                                 CommandEvent(deviceId, caller, "low", command,
                                              parameters, NoMessageId, t)),
                          sent.router, pushed)
         IN bulkLoop(next, Tail(deviceIds), caller, command, parameters,
                     IF isValidDeviceId(deviceId) THEN k + 1 ELSE k, fails,
                     rands, t)

\* POST /api/commands/bulk for a caller with a valid token: requireAdmin,
\* then CommandController.sendBulkCommands
SendBulkCommands(deviceIds, caller, command, parameters, rands, fails) ==
    /\ nreq < MaxCommandCalls
    /\ LET after == bulkLoop(Dispatched(events, router, <<>>), deviceIds, caller,
                             command[1], parameters, 1, fails, rands, now)
       IN IF ~IsAdmin(caller) THEN RefuseCommand("sendBulkCommands", 403)
          ELSE IF deviceIds = <<>> THEN RefuseCommand("sendBulkCommands", 400)
          ELSE IF ~includes(validCommands, command)
          THEN RefuseCommand("sendBulkCommands", 400)
          ELSE IF ~isConnected(router)
          THEN RefuseCommand("sendBulkCommands", 503)
          ELSE /\ events' = after.events
               /\ router' = after.router
               /\ last' = BatchAnswer("sendBulkCommands", after.results)
    /\ nreq' = nreq + 1
    /\ UNCHANGED <<now, ticks, telemetry, handlers, lastSeen>>

\* parameter objects of the request bodies: none, a clean string, a number,
\* a string with blanks and angle brackets
ParameterInputs ==
    {<<>>,
     [intensity |-> Str(<<"high">>)],
     [duration |-> Num("500")],
     [pattern |-> Str(<<" ", "<", "sos", ">">>)]}

\* single-command requests: the device of the path, the caller of the token
\* and the command of the body ("ghost" has no user document, guest does not
\* list stick-001, "stick 001" has a blank in it)
CommandInputs ==
    {[deviceId |-> <<"stick-001">>, caller |-> "owner1", command |-> <<"beep">>],
     [deviceId |-> <<"stick-001">>, caller |-> "admin",
      command |-> <<" ", "vibrate">>],
     [deviceId |-> <<"stick-001">>, caller |-> "owner1",
      command |-> <<"explode">>],
     [deviceId |-> <<"stick-001">>, caller |-> "owner1", command |-> <<>>],
     [deviceId |-> <<"stick", " ", "001">>, caller |-> "admin",
      command |-> <<"beep">>],
     [deviceId |-> <<"stick", " ", "001">>, caller |-> "ghost",
      command |-> <<"explode">>],
     [deviceId |-> <<"stick-001">>, caller |-> "guest", command |-> <<"beep">>],
     [deviceId |-> <<"stick-002">>, caller |-> "ghost", command |-> <<"reboot">>]}

\* what Math.random gives to the dispatches of one request
RandomInputs == {<<"k3x", "p9q", "z1m">>, <<"k3x", "k3x", "p9q">>}

\* requests for a device: the emergency sequence and the status request
DeviceRequestInputs ==
    {[deviceId |-> <<"stick-001">>, caller |-> "owner1"],
     [deviceId |-> <<"stick-002">>, caller |-> "admin"],
     [deviceId |-> <<"stick-001">>, caller |-> "guest"],
     [deviceId |-> <<"<", "stick-001", ">">>, caller |-> "owner1"]}

\* bulk requests
BulkInputs ==
    {[deviceIds |-> << <<"stick-001">>, <<"stick-002">> >>, caller |-> "admin",
      command |-> <<"beep">>, parameters |-> [duration |-> Num("500")]],
     [deviceIds |-> << <<"stick-001">>, <<"stick", " ", "001">>,
                       <<"stick-002">> >>,
      caller |-> "admin", command |-> <<"led_on">>, parameters |-> <<>>],
     [deviceIds |-> << <<"stick-001">> >>, caller |-> "admin",
      command |-> <<" ", "beep">>, parameters |-> <<>>],
     [deviceIds |-> <<>>, caller |-> "admin", command |-> <<"beep">>,
      parameters |-> <<>>],
     [deviceIds |-> << <<"stick-002">> >>, caller |-> "admin",
      command |-> <<"led_off">>, parameters |-> <<>>],
     [deviceIds |-> << <<"stick-001">> >>, caller |-> "owner1",
      command |-> <<"beep">>, parameters |-> <<>>]}

NextCommand ==
    \/ \E c \in CommandInputs, p \in ParameterInputs, rands \in RandomInputs,
          ok \in BOOLEAN :
          PostCommand(c.deviceId, c.caller, c.command, p, rands[1], ok)
    \/ \E c \in DeviceRequestInputs, rands \in RandomInputs,
          fails \in FailInputs :
          SendEmergencyCommands(c.deviceId, c.caller, Str(<<"high">>),
                                Num("10"), rands, fails)
    \/ \E c \in DeviceRequestInputs, rands \in RandomInputs, ok \in BOOLEAN :
          GetDeviceStatus(c.deviceId, c.caller, rands[1], ok)
    \/ \E b \in BulkInputs, rands \in RandomInputs, fails \in FailInputs :
          SendBulkCommands(b.deviceIds, b.caller, b.command, b.parameters,
                           rands, fails)
    \/ Connect
    \/ OnConnect(Len(DefaultSubscriptions))
    \/ OnOffline

SpecCommand == Init /\ [][NextCommand]_vars

-----------------------------------------------------------------------------
(* SpecAccess: incident operations and command dispatch side by side, so     *)
(* that the Event collection holds SOS incidents and dispatch entries and    *)
(* the callers are owners, strangers to the device and the admin.            *)

NextAccess ==
    \/ nreq < MaxAccessCalls /\ \E d \in Devices : ReceiveSOS(d, TRUE)
    \/ nreq < MaxAccessCalls /\ \E id \in EventIdInputs, r \in AcknowledgeInputs :
          AcknowledgeSOS(id, r.caller, r.note)
    \/ nreq < MaxAccessCalls /\ \E id \in EventIdInputs, r \in ResolveInputs :
          ResolveSOS(id, r.caller, r.resolutionNote, r.actions)
    \/ nreq < MaxAccessCalls /\ \E id \in EventIdInputs, r \in EscalateInputs :
          EscalateSOS(id, r.caller, r.escalatedTo, r.reason, r.level)
    \/ nreq < MaxAccessCalls /\ \E c \in CommandInputs :
          PostCommand(c.deviceId, c.caller, c.command, <<>>, "k3x", TRUE)
    \/ nreq < MaxAccessCalls /\ \E c \in DeviceRequestInputs :
          SendEmergencyCommands(c.deviceId, c.caller, Str(<<"high">>),
                                Num("10"), <<"k3x", "p9q", "z1m">>, {})
    \/ nreq < MaxAccessCalls /\ \E c \in DeviceRequestInputs :
          GetDeviceStatus(c.deviceId, c.caller, "k3x", TRUE)
    \/ nreq < MaxAccessCalls /\ \E b \in BulkInputs :
          SendBulkCommands(b.deviceIds, b.caller, b.command, b.parameters,
                           <<"k3x", "p9q", "z1m">>, {})
    \/ Connect
    \/ OnConnect(Len(DefaultSubscriptions))

SpecAccess == Init /\ [][NextAccess]_vars

-----------------------------------------------------------------------------
(* SpecAuth: the protected command routes with the token of the request:     *)
(* none, one that verifies, an expired one, one with a bad signature and     *)
(* one that is signed but not valid yet.                                     *)

\* the Authorization header of a request: kind "none" is a request without
\* token, "signed" a token that verifies and names userId
Token(kind, userId) == [kind |-> kind, userId |-> userId]

TokenInputs ==
    {Token("none", ""), Token("signed", "owner1"), Token("signed", "admin"),
     Token("signed", "guest"), Token("expired", "owner1"),
     Token("garbled", "admin"), Token("early", "owner1")}

\* AuthUtils.verifyToken: jwt.verify gives the decoded payload or throws an
\* error with one of the names of the library
verifyToken(token) ==
    CASE token.kind = "signed" -> [error |-> "", userId |-> token.userId]
      [] token.kind = "expired" -> [error |-> "TokenExpiredError", userId |-> ""]
      [] token.kind = "garbled" -> [error |-> "JsonWebTokenError", userId |-> ""]
      [] OTHER -> [error |-> "NotBeforeError", userId |-> ""]

\* AuthUtils.authenticateToken: the status code it answers, 0 when it calls
\* next()
authenticateToken(token) ==
    IF token.kind = "none" THEN 401
    ELSE LET decoded == verifyToken(token)
         IN IF decoded.error = "" THEN 0
            ELSE IF decoded.error = "TokenExpiredError" THEN 401
            ELSE IF decoded.error = "JsonWebTokenError" THEN 401
            ELSE 500

\* a request answered by authenticateToken: next() is not called
Unauthenticated(code) ==
    /\ nreq < MaxCommandCalls
    /\ last' = CommandAnswer("authenticateToken", code, NoMessageId)
    /\ nreq' = nreq + 1
    /\ UNCHANGED <<events, now, ticks, telemetry, handlers, router, lastSeen>>

\* POST /api/commands/:deviceId: authenticateToken, validateCommand(),
\* CommandController.sendCommand with req.user the decoded payload
CommandRoute(token, deviceId, command, parameters, rand, brokerOk) ==
    IF authenticateToken(token) # 0
    THEN Unauthenticated(authenticateToken(token))
    ELSE PostCommand(deviceId, verifyToken(token).userId, command, parameters,
                     rand, brokerOk)

\* POST /api/commands/:deviceId/status: authenticateToken,
\* CommandController.getDeviceStatus
StatusRoute(token, deviceId, rand, brokerOk) ==
    IF authenticateToken(token) # 0
    THEN Unauthenticated(authenticateToken(token))
    ELSE GetDeviceStatus(deviceId, verifyToken(token).userId, rand, brokerOk)

\* the paths and bodies of the requests
RouteInputs ==
    {[deviceId |-> <<"stick-001">>, command |-> <<"beep">>],
     [deviceId |-> <<"stick-002">>, command |-> <<"reboot">>],
     [deviceId |-> <<"stick-001">>, command |-> <<"explode">>]}

NextAuth ==
    \/ \E token \in TokenInputs, c \in RouteInputs, p \in ParameterInputs,
          ok \in BOOLEAN :
          CommandRoute(token, c.deviceId, c.command, p, "k3x", ok)
    \/ \E token \in TokenInputs, c \in RouteInputs, ok \in BOOLEAN :
          StatusRoute(token, c.deviceId, "p9q", ok)
    \/ Connect
    \/ OnConnect(Len(DefaultSubscriptions))
    \/ OnOffline

SpecAuth == Init /\ [][NextAuth]_vars

-----------------------------------------------------------------------------
(* SpecConcurrent: acknowledge and resolve requests on one incident running  *)
(* concurrently.  A request loads the incident (Event.findById), awaits the   *)
(* lookup of its user, and then changes its copy and saves it; another        *)
(* request may run between the load and the save.                            *)

\* a request not started: pc is where the handler stands, loaded the document
\* as findById returned it
IdleRequest ==
    [pc |-> "idle", op |-> "", eventId |-> 0, caller |-> "",
     loaded |-> createSOSEvent(<<>>, 0)]

\* document.save() of a loaded document: the paths changed since the load are
\* written ($set), the entries pushed to acknowledgments are appended ($push);
\* every other path keeps what the collection holds
saveModified(stored, loaded, doc) ==
    [stored EXCEPT
        !.status = IF doc.status # loaded.status THEN doc.status ELSE @,
        !.resolution =
            IF doc.resolution # loaded.resolution THEN doc.resolution ELSE @,
        !.acknowledgments =
            @ \o SubSeq(doc.acknowledgments, Len(loaded.acknowledgments) + 1,
                        Len(doc.acknowledgments))]

\* the callers of the concurrent requests
ConcurrentInputs ==
    {[op |-> "acknowledge", caller |-> "owner1"],
     [op |-> "acknowledge", caller |-> "admin"],
     [op |-> "resolve", caller |-> "owner1"],
     [op |-> "resolve", caller |-> "guest"]}

\* acknowledgeSOS / resolveSOS up to await Event.findById(eventId) and the
\* checks of what it returned
Load(h, op, caller, eventId) ==
    /\ handlers[h].pc = "idle"
    /\ \A g \in 1..(h - 1) : handlers[g].pc # "idle"
    /\ LET code == IF ~isValidObjectId(eventId) THEN 400
                   ELSE IF eventId \notin DOMAIN events THEN 404
                   ELSE IF events[eventId].type # "SOS" THEN 400
                   ELSE 0
       IN IF code # 0
          THEN /\ handlers' = [handlers EXCEPT ![h].pc = "done", ![h].op = op,
                                               ![h].caller = caller]
               /\ last' = Answer(op, eventId, code)
          ELSE /\ handlers' =
                    [handlers EXCEPT
                        ![h] = [pc |-> "loaded", op |-> op, eventId |-> eventId,
                                caller |-> caller, loaded |-> events[eventId]]]
               /\ last' = last
    /\ nreq' = nreq + 1
    /\ UNCHANGED <<events, now, ticks, telemetry, router, lastSeen>>

\* the rest of the handler: the access check after await User.findById, then
\* sosEvent.acknowledge(...) or sosEvent.resolve(...), which change the
\* loaded document and save it
ChangeAndSave(h) ==
    /\ handlers[h].pc = "loaded"
    /\ LET r == handlers[h]
           doc == IF r.op = "acknowledge"
                  THEN acknowledge(r.loaded, r.caller, <<>>, now)
                  ELSE resolve(r.loaded, r.caller, <<>>, <<>>, now)
       IN IF ~hasAccess(r.caller, r.loaded.deviceId)
          THEN /\ events' = events
               /\ last' = Answer(r.op, r.eventId, 403)
          ELSE /\ events' = [events EXCEPT
                               ![r.eventId] = saveModified(@, r.loaded, doc)]
               /\ last' = Answer(r.op, r.eventId, 200)
    /\ handlers' = [handlers EXCEPT ![h].pc = "done"]
    /\ UNCHANGED <<now, ticks, nreq, telemetry, router, lastSeen>>

InitConcurrent ==
    /\ events = <<>>
    /\ now = 0
    /\ ticks = 0
    /\ nreq = 0
    /\ last = Answer("none", 0, 0)
    /\ telemetry = <<>>
    /\ handlers = [h \in HandlerIds |-> IdleRequest]
    /\ router = NewRouter
    /\ lastSeen = NeverSeen

NextConcurrent ==
    \/ ReceiveSOS(<<"stick-001">>, TRUE)
    \/ \E h \in HandlerIds, r \in ConcurrentInputs, id \in EventIdInputs :
          Load(h, r.op, r.caller, id)
    \/ \E h \in HandlerIds : ChangeAndSave(h)

SpecConcurrent == InitConcurrent /\ [][NextConcurrent]_vars

-----------------------------------------------------------------------------
(* SpecDispatch: MQTTClient.sendCommand called directly, with a broker that  *)
(* may refuse the publish and a store that may refuse the entry.             *)

\* the arguments of the calls
DispatchInputs ==
    {[deviceId |-> <<"stick-001">>, command |-> "beep", parameters |-> <<>>],
     [deviceId |-> <<"stick-002">>, command |-> "reboot",
      parameters |-> [duration |-> Num("500")]]}

\* a caller awaits mqttClient.sendCommand(deviceId, command, parameters)
MqttSendCommand(deviceId, command, parameters, rand, brokerOk, createOk) ==
    /\ nreq < MaxCommandCalls
    /\ LET sent == sendCommandStored(events, router, deviceId, command,
                                     parameters, rand, brokerOk, createOk, now)
       IN /\ events' = sent.events
          /\ router' = sent.router
          /\ last' = [op |-> "mqttSendCommand", eventId |-> 0, code |-> 0]
                     @@ sent.result
    /\ nreq' = nreq + 1
    /\ UNCHANGED <<now, ticks, telemetry, handlers, lastSeen>>

NextDispatch ==
    \/ \E c \in DispatchInputs, rands \in RandomInputs, brokerOk \in BOOLEAN,
          createOk \in BOOLEAN :
          MqttSendCommand(c.deviceId, c.command, c.parameters, rands[2],
                          brokerOk, createOk)
    \/ Connect
    \/ OnConnect(Len(DefaultSubscriptions))
    \/ OnOffline
    \/ Tick(1, MaxIngestTicks)

SpecDispatch == Init /\ [][NextDispatch]_vars

-----------------------------------------------------------------------------
(* Properties of the incident lifecycle (Spec) *)

IsPrefix(s, t) == Len(s) <= Len(t) /\ SubSeq(t, 1, Len(s)) = s

Rank(status) ==
    CASE status = "active" -> 0
      [] status = "acknowledged" -> 1
      [] status = "resolved" -> 2
      [] OTHER -> 3

Clamp(level) ==
    IF level < EscalationLevelMin THEN EscalationLevelMin
    ELSE IF level > EscalationLevelMax THEN EscalationLevelMax
    ELSE level

\* C1: after a resolve has succeeded on an incident, every later (permitted)
\* resolve call on it is answered with a conflict (409) and leaves the
\* resolution record as the first call wrote it.
C1_SecondResolveConflict ==
    [][\A id \in DOMAIN events, r \in ResolveInputs :
          (/\ events[id].status = "resolved"
           /\ Precheck(id, r.caller) = 0
           /\ ResolveSOS(id, r.caller, r.resolutionNote, r.actions))
          => (/\ last'.code = 409
              /\ events'[id].resolution = events[id].resolution)]_vars

\* C2: every (permitted) acknowledge call on an incident that is not resolved
\* appends exactly one entry at the end of the acknowledgments list and leaves
\* the status Acknowledged.
C2_EachAcknowledgeAppends ==
    [][\A id \in DOMAIN events, r \in AcknowledgeInputs :
          (/\ events[id].status # "resolved"
           /\ Precheck(id, r.caller) = 0
           /\ AcknowledgeSOS(id, r.caller, r.note))
          => (/\ Len(events'[id].acknowledgments)
                    = Len(events[id].acknowledgments) + 1
              /\ IsPrefix(events[id].acknowledgments,
                          events'[id].acknowledgments)
              /\ events'[id].status = "acknowledged")]_vars

C4_StatusMonotonic ==
    [][\A id \in DOMAIN events :
          /\ id \in DOMAIN events'
          /\ Rank(events'[id].status) >= Rank(events[id].status)]_vars

\* create, acknowledge, resolve and escalate have acted on one incident, in
\* this order
C4_Witness ==
    \E id \in DOMAIN events :
        /\ last = Answer("escalate", id, 200)
        /\ events[id].status = "resolved"
        /\ Len(events[id].acknowledgments) = 1
        /\ events[id].acknowledgments[1].acknowledgedAt
              < events[id].resolution.resolvedAt
        /\ events[id].escalation.escalated

\* C5: no operation removes, reorders or rewrites an acknowledgment entry:
\* in every step the old list is a prefix of the new one.
C5_AcknowledgmentsAppendOnly ==
    [][\A id \in DOMAIN events :
          /\ id \in DOMAIN events'
          /\ IsPrefix(events[id].acknowledgments,
                      events'[id].acknowledgments)]_vars

\* an incident whose notification status was updated and that was
\* acknowledged and then resolved, the resolve being the last call
C5_Witness ==
    \E id \in DOMAIN events :
        /\ last = Answer("resolve", id, 200)
        /\ events[id].notifications.fcmTimestamp >= 0
        /\ Len(events[id].acknowledgments) = 1
        /\ events[id].resolution.resolvedAt >= 0

\* C6: a (permitted) escalate call with any integer level succeeds and stores
\* the level clamped to 1..5.
C6_EscalateClamps ==
    [][\A id \in DOMAIN events, r \in EscalateInputs :
          (/\ EscalatePrecheck(id, r.caller, r.escalatedTo) = 0
           /\ EscalateSOS(id, r.caller, r.escalatedTo, r.reason, r.level))
          => (/\ last'.code = 200
              /\ events'[id].escalation.escalationLevel = Clamp(r.level))]_vars

\* C7: a (permitted) escalate call, in any status, leaves the status, the
\* acknowledgments and the resolution record unchanged, and afterwards the
\* escalation record holds the target, reason and clamped level of that call.
C7_EscalateOverwrites ==
    [][\A id \in DOMAIN events, r \in EscalateInputs :
          (/\ EscalatePrecheck(id, r.caller, r.escalatedTo) = 0
           /\ EscalateSOS(id, r.caller, r.escalatedTo, r.reason, r.level))
          => (/\ events'[id].status = events[id].status
              /\ events'[id].acknowledgments = events[id].acknowledgments
              /\ events'[id].resolution = events[id].resolution
              /\ events'[id].escalation =
                    [escalated |-> TRUE, escalatedAt |-> now,
                     escalatedTo |-> r.escalatedTo,
                     escalationReason |-> sanitizeText(r.reason),
                     escalationLevel |-> Clamp(r.level)])]_vars

-----------------------------------------------------------------------------
(* Properties of the alert cooldown (SpecAlert, SpecRace) *)

IsLowBattery(i, deviceId) ==
    events[i].type = "LOW_BATTERY" /\ events[i].deviceId = deviceId

\* C8: for each device, the accepted telemetry messages with battery level
\* below 20 that arrive within one cooldown window, on the HTTP path or on the
\* MQTT path, leave exactly one LOW_BATTERY incident for the device in that
\* window: every such message has one within the window before it, and no
\* two LOW_BATTERY incidents of a device lie within one window.
C8_OneLowBatteryPerWindow ==
    /\ \A k \in DOMAIN telemetry :
          telemetry[k].level < LowBatteryThreshold =>
             \E i \in DOMAIN events :
                /\ IsLowBattery(i, telemetry[k].deviceId)
                /\ events[i].timestamp <= telemetry[k].timestamp
                /\ events[i].timestamp
                      >= telemetry[k].timestamp - LowBatteryWindowMs
    /\ \A i, j \in DOMAIN events :
          (/\ i < j
           /\ events[i].type = "LOW_BATTERY"
           /\ IsLowBattery(j, events[i].deviceId))
          => events[j].timestamp - events[i].timestamp > LowBatteryWindowMs

\* an alert with this device and this type was recorded within the window
SameKeyRecorded(type, deviceId, window) ==
    \E i \in DOMAIN events :
        /\ events[i].type = type
        /\ events[i].deviceId = deviceId
        /\ events[i].timestamp >= now - window

\* the step added an event of this type for this device
Recorded(type, deviceId) ==
    \E i \in DOMAIN events' :
        /\ i \notin DOMAIN events
        /\ events'[i].type = type
        /\ events'[i].deviceId = deviceId
        /\ events'[i].timestamp = now

\* C9: cooldown suppression is keyed by (deviceId, type): a low-battery alert
\* (an obstacle alert) is recorded whenever no alert of the same device and
\* the same type lies within the window, whatever other devices' or other
\* types' alerts were recorded.
C9_CooldownKeyedByDeviceAndType ==
    [][/\ \A m \in TelemetryInputs :
            (/\ HandleTelemetryMessage(m)
             /\ telemetryValid(m)
             /\ m.level < LowBatteryThreshold
             /\ ~SameKeyRecorded("LOW_BATTERY", m.deviceId, LowBatteryWindowMs))
            => Recorded("LOW_BATTERY", m.deviceId)
       /\ \A d \in Devices, x \in DistanceInputs :
            (/\ HandleObstacleAlert(d, x)
             /\ ~SameKeyRecorded("OBSTACLE_DETECTED", d, ObstacleWindowMs))
            => Recorded("OBSTACLE_DETECTED", d)]_vars

\* the MQTT message handled last is the first of its device and left a
\* LOW_BATTERY incident although another device's lies within the window;
\* and handleObstacleAlert recorded an obstacle alert for a device within
\* the obstacle window of that device's LOW_BATTERY incident
C9_Witness ==
    /\ telemetry # <<>>
    /\ events # <<>>
    /\ last = Answer("handleTelemetryMessage", Len(telemetry), 0)
    /\ LET d == telemetry[Len(telemetry)].deviceId
           n == Len(events)
       IN /\ IsLowBattery(n, d)
          /\ \A k \in 1..(Len(telemetry) - 1) : telemetry[k].deviceId # d
          /\ \E i \in 1..(n - 1) :
                /\ events[i].type = "LOW_BATTERY"
                /\ events[i].deviceId # d
                /\ events[n].timestamp - events[i].timestamp
                      <= LowBatteryWindowMs
    /\ \E i, j \in DOMAIN events :
          /\ i < j
          /\ events[i].type = "LOW_BATTERY"
          /\ events[j].type = "OBSTACLE_DETECTED"
          /\ events[j].deviceId = events[i].deviceId
          /\ events[j].timestamp - events[i].timestamp <= ObstacleWindowMs
          /\ \A k \in DOMAIN telemetry :
                telemetry[k].deviceId = events[i].deviceId
                   => (/\ telemetry[k].left >= ObstacleThreshold
                       /\ telemetry[k].right >= ObstacleThreshold)

\* two handlers each created a LOW_BATTERY incident for one device, the
\* second within the cooldown window of the first
Duplicate(h1, h2) ==
    /\ h1 # h2
    /\ handlers[h1].created # 0
    /\ handlers[h2].created # 0
    /\ handlers[h1].created < handlers[h2].created
    /\ handlers[h1].msg.deviceId = handlers[h2].msg.deviceId
    /\ events[handlers[h2].created].timestamp
          - events[handlers[h1].created].timestamp <= LowBatteryWindowMs

\* C10: the cooldown check is a read followed by a separate write: two
\* LOW_BATTERY incidents of one device within one window arise when, and only
\* when, the second handler's cooldown read ran before the first handler's
\* incident was recorded.
C10_DuplicateOnlyByRace ==
    \A h1, h2 \in DOMAIN handlers :
        Duplicate(h1, h2) => handlers[h2].seen < handlers[h1].created

\* more than one LOW_BATTERY incident of one device inside one cooldown window
C10_Witness ==
    \E h1, h2 \in DOMAIN handlers :
        /\ Duplicate(h1, h2)
        /\ IsLowBattery(handlers[h1].created, handlers[h1].msg.deviceId)
        /\ IsLowBattery(handlers[h2].created, handlers[h1].msg.deviceId)

-----------------------------------------------------------------------------
(* Properties of the alert rules (SpecRules) *)

\* the step added an event of this type and severity for this device
RecordedWith(type, deviceId, severity) ==
    \E i \in DOMAIN events' :
        /\ i \notin DOMAIN events
        /\ events'[i].type = type
        /\ events'[i].deviceId = deviceId
        /\ events'[i].severity = severity

LowBatteryOutcome(m) ==
    IF m.level < 20
    THEN RecordedWith("LOW_BATTERY", m.deviceId,
                      IF m.level < 10 THEN "high" ELSE "medium")
    ELSE ~Recorded("LOW_BATTERY", m.deviceId)

\* C11: for every accepted battery level in 0..100, 0 included, a low-battery
\* alert is produced exactly when the level is below 20, of severity high
\* below 10 and medium otherwise, on the HTTP path and (no alert of the device
\* lying within the cooldown) on the MQTT path.
C11_LowBatteryRule ==
    [][\A m \in RuleInputs :
          /\ (ReceiveTelemetry(m) /\ telemetryValid(m)) => LowBatteryOutcome(m)
          /\ (/\ HandleTelemetryMessage(m)
              /\ telemetryValid(m)
              /\ ~SameKeyRecorded("LOW_BATTERY", m.deviceId, LowBatteryWindowMs))
             => LowBatteryOutcome(m)]_vars

ObstacleOutcome(m) ==
    LET minimum == IF m.left < m.right THEN m.left ELSE m.right
    IN IF minimum < 30
       THEN RecordedWith("OBSTACLE_DETECTED", m.deviceId,
                         IF minimum < 15 THEN "high" ELSE "medium")
       ELSE ~Recorded("OBSTACLE_DETECTED", m.deviceId)

\* C12: for every accepted pair of ultrasonic readings in 0..1000, 0
\* included, an obstacle alert is produced exactly when min(left, right) < 30,
\* of severity high when the minimum is below 15 and medium otherwise, on the
\* HTTP path and on the MQTT path.
C12_ObstacleRule ==
    [][\A m \in RuleInputs :
          ((ReceiveTelemetry(m) \/ HandleTelemetryMessage(m)) /\ telemetryValid(m))
          => ObstacleOutcome(m)]_vars

\* the latest record of the device stored before now has a fix
MostRecentEarlierHadFix(deviceId) ==
    \E k \in DOMAIN telemetry :
        /\ telemetry[k].deviceId = deviceId
        /\ telemetry[k].timestamp < now
        /\ telemetry[k].fix
        /\ \A j \in DOMAIN telemetry :
              (telemetry[j].deviceId = deviceId /\ telemetry[j].timestamp < now)
              => telemetry[j].timestamp <= telemetry[k].timestamp

\* C13: a GPS_LOST alert of severity medium is produced exactly when the
\* current record lacks a fix and the most recent earlier record of the same
\* device had one; none when the most recent earlier record lacked a fix too,
\* even if an older record had one.
C13_GpsLostRule ==
    [][\A m \in RuleInputs :
          (ReceiveTelemetry(m) /\ telemetryValid(m))
          => (RecordedWith("GPS_LOST", m.deviceId, "medium")
                 <=> (~m.fix /\ MostRecentEarlierHadFix(m.deviceId)))]_vars

-----------------------------------------------------------------------------
(* Properties of the transport router (SpecRouter) *)

Slashes(s) == {i \in DOMAIN s : s[i] = "/"}

SegmentCount(s) == Cardinality(Slashes(s)) + 1

\* the position of the k-th "/" of s
SlashAt(s, k) ==
    CHOOSE i \in Slashes(s) : Cardinality({j \in Slashes(s) : j <= i}) = k

\* the k-th "/"-separated segment of s
Segment(s, k) ==
    SubSeq(s,
           IF k = 1 THEN 1 ELSE SlashAt(s, k - 1) + 1,
           IF k = SegmentCount(s) THEN Len(s) ELSE SlashAt(s, k) - 1)

\* single-level wildcard matching, segment by segment
Matches(topic, pattern) ==
    /\ SegmentCount(topic) = SegmentCount(pattern)
    /\ \A k \in 1..SegmentCount(pattern) :
          \/ Segment(pattern, k) = <<"+">>
          \/ Segment(pattern, k) = Segment(topic, k)

\* the places of the handler table whose pattern matches the topic
MatchingPlaces(topic) ==
    {k \in DOMAIN router.messageHandlers :
        Matches(topic, router.messageHandlers[k].pattern)}

\* C14: an inbound message is dispatched to at most one handler, the first
\* registered one, in registration order, whose pattern matches its topic;
\* handlers registered later are not invoked even if their patterns match,
\* and a message matching no pattern invokes no handler.
C14_FirstMatchDispatch ==
    [][\A i \in InboundInputs :
          HandleMessage(i.topic, i.payload) =>
             LET places == MatchingPlaces(i.topic)
             IN IF places = {}
                THEN router'.invoked = <<>>
                ELSE \E k \in places :
                        /\ \A j \in places : k <= j
                        /\ router'.invoked =
                              <<router.messageHandlers[k].handler>>]_vars

\* the message handled last matched two registered patterns with different
\* handlers and was given to the first one only
C14_Witness ==
    \E k, j \in MatchingPlaces(router.topic) :
        /\ k < j
        /\ router.messageHandlers[k].handler # router.messageHandlers[j].handler
        /\ \A l \in MatchingPlaces(router.topic) : k <= l
        /\ router.invoked = <<router.messageHandlers[k].handler>>

\* C15: a topic matches a pattern exactly when both have the same number of
\* "/"-separated segments and every pattern segment is "+" or equal to the
\* topic segment at its position; "+" stands for exactly one segment.  Stated
\* of the topic of the inbound message handled last and of every pattern the
\* router is subscribed to.
C15_TopicMatchesBySegments ==
    \A p \in router.subscriptions :
        topicMatches(router.topic, p) <=> Matches(router.topic, p)

\* the topic handled last matches one subscribed pattern through a "+", and
\* has more segments than another subscribed pattern all of whose segments
\* agree with the topic's first ones, which it does not match
C15_Witness ==
    /\ \E p \in router.subscriptions :
          /\ topicMatches(router.topic, p)
          /\ \E k \in 1..SegmentCount(p) :
                Segment(p, k) = <<"+">> /\ Segment(router.topic, k) # <<"+">>
    /\ \E p \in router.subscriptions :
          /\ SegmentCount(router.topic) > SegmentCount(p)
          /\ \A k \in 1..SegmentCount(p) :
                \/ Segment(p, k) = <<"+">>
                \/ Segment(p, k) = Segment(router.topic, k)
          /\ ~topicMatches(router.topic, p)

\* C16: after a disconnect the client retries, and once the reconnect
\* attempts exceed the limit the router ends the client and stays
\* disconnected: the attempts never go beyond one past the limit, a count
\* past the limit means the client is ended, and an ended client stays
\* ended, not connected and without a further attempt.
C16_ReconnectBounded ==
    /\ [](router.reconnectAttempts <= maxReconnectAttempts + 1)
    /\ [](router.reconnectAttempts > maxReconnectAttempts
             => router.client = "ended")
    /\ [](router.client = "offline" => ENABLED OnReconnect)
    /\ [](router.client = "ended" => ~router.connected)
    /\ [][router.client = "ended" =>
             /\ router'.client = "ended"
             /\ ~router'.connected
             /\ router'.reconnectAttempts = router.reconnectAttempts
             /\ router'.connects = router.connects]_vars

\* a router that was connected, lost the connection and ended its client
\* after one attempt more than the limit
C16_Witness ==
    /\ router.client = "ended"
    /\ router.connects >= 1
    /\ router.reconnectAttempts = maxReconnectAttempts + 1
    /\ ~router.connected

HasHandler(r, pattern, handler) ==
    \E k \in DOMAIN r.messageHandlers :
        r.messageHandlers[k] = [pattern |-> pattern, handler |-> handler]

\* C17: subscribe called while the router is not connected fails with the
\* not-connected error and leaves the subscriptions and the handler table as
\* they were; called while connected and accepted by the broker it adds the
\* pattern to the subscriptions and registers the handler.
C17_SubscribeNeedsConnection ==
    [][\A s \in SubscribeInputs, ok \in BOOLEAN :
          Subscribe(s.pattern, s.handler, ok) =>
             IF ~router.connected
             THEN /\ router'.result.kind = "rejected"
                  /\ router'.result.error = "MQTT client not connected"
                  /\ router'.subscriptions = router.subscriptions
                  /\ router'.messageHandlers = router.messageHandlers
                  /\ router'.brokerSubs = router.brokerSubs
             ELSE ok =>
                  /\ router'.result.kind = "resolved"
                  /\ s.pattern \in router'.subscriptions
                  /\ s.handler # "" => HasHandler(router', s.pattern, s.handler)
      ]_vars

\* a pattern was registered with its handler while connected, and a later
\* subscribe for another pattern, made after the connection was lost, was
\* refused and left no trace
C17_Witness ==
    /\ ~router.connected
    /\ router.result =
          Outcome("subscribe", "rejected", "MQTT client not connected")
    /\ HasHandler(router, <<"smartstick", "/", "+", "/", "+">>, "custom")
    /\ <<"other", "/", "x">> \notin router.subscriptions

\* C18: publish called while the router is disconnected fails with the
\* not-connected error and sends nothing; in every other case the promise it
\* returned is not rejected: the caller gets a success or a failure result
\* as a value.
C18_PublishReturnsResult ==
    [][\A t \in PublishInputs, ok \in BOOLEAN :
          Publish(t, ok) =>
             IF ~router.connected
             THEN /\ router'.result.kind = "rejected"
                  /\ router'.result.error = "MQTT client not connected"
                  /\ router'.sent = router.sent
             ELSE router'.result.kind # "rejected"]_vars

\* a payload that is not an object text in braces
Unparsable(payload) ==
    \/ payload = <<>>
    \/ Head(payload) # "{"
    \/ payload[Len(payload)] # "}"
    \/ Len(payload) < 3

\* C19: an inbound message whose payload cannot be parsed is dropped: no
\* telemetry record, no incident, no notification, and the router's
\* connection state, subscriptions and handler table are as before, so that
\* later messages are dispatched as usual.
C19_UnparsableDropped ==
    [][\A i \in InboundInputs :
          (HandleMessage(i.topic, i.payload) /\ Unparsable(i.payload)) =>
             /\ telemetry' = telemetry
             /\ events' = events
             /\ router'.notified = router.notified
             /\ router'.sent = router.sent
             /\ router'.client = router.client
             /\ router'.connected = router.connected
             /\ router'.subscriptions = router.subscriptions
             /\ router'.brokerSubs = router.brokerSubs
             /\ router'.messageHandlers = router.messageHandlers]_vars

\* the telemetry handler was given a message of stick-001 and nothing was
\* stored: its payload was the truncated one
C19_Witness ==
    /\ router.topic = Topic("stick-001", "telemetry")
    /\ router.invoked = <<"handleTelemetryMessage">>
    /\ telemetry = <<>>
    /\ events = <<>>
    /\ router.client = "online"

-----------------------------------------------------------------------------
(* Properties of telemetry ingestion (SpecIngest) *)

\* a payload that fails validation in one of the ways the claim names: no
\* device id, a sensor value out of range, a coordinate out of range
FailsValidation(m) ==
    \/ m.deviceId = <<>>
    \/ m.level < 0 \/ m.level > 100
    \/ m.left < 0 \/ m.left > 1000
    \/ m.right < 0 \/ m.right > 1000
    \/ m.lat < -90 \/ m.lat > 90
    \/ m.lon < -180 \/ m.lon > 180

\* C21: a telemetry submission that fails validation (no device id, a sensor
\* value or a coordinate out of range) is answered 400 and has no side
\* effect: no telemetry record is stored, no last-seen is updated and no
\* incident is created.
C21_InvalidTelemetryRejected ==
    [][\A m \in IngestInputs, ok \in BOOLEAN :
          (PostTelemetry(m, ok) /\ FailsValidation(m))
          => /\ last'.code = 400
             /\ UNCHANGED <<telemetry, lastSeen, events>>]_vars

\* after one submission was stored and raised its alerts, a submission that
\* passed the request validators was refused by the storage schema
C21_Witness ==
    /\ last = Answer("receiveTelemetry", 0, 400)
    /\ Len(telemetry) = 1
    /\ events # <<>>
    /\ lastSeen[<<"stick-001">>] = now

\* C22: when a valid telemetry record has been stored and the last-seen
\* update that follows fails in storage, the submission is still answered
\* 201 and the alert rules are still applied to the record.
C22_LastSeenFailureTolerated ==
    [][\A m \in IngestInputs :
          (PostTelemetry(m, FALSE) /\ Len(telemetry') > Len(telemetry))
          => /\ last'.code = 201
             /\ events' = checkForAlerts(events, telemetry', m, now)]_vars

-----------------------------------------------------------------------------
(* Properties of SOS handling (SpecSOS, SpecRouter) *)

\* a body the validators and the schema accept
WellFormedSOS(b) ==
    /\ b.deviceId # <<>>
    /\ b.emergencyType \in {""} \cup EmergencyTypes
    /\ b.lat >= -90 /\ b.lat <= 90
    /\ b.lon >= -180 /\ b.lon <= 180

\* the collection grew by exactly one SOS incident of the device, active
OneNewSOS(deviceId) ==
    /\ Len(events') = Len(events) + 1
    /\ SubSeq(events', 1, Len(events)) = events
    /\ events'[Len(events')].type = "SOS"
    /\ events'[Len(events')].deviceId = deviceId
    /\ events'[Len(events')].status = "active"

\* C23: an SOS submission over HTTP for a device with no registered
\* notification recipient is answered 201 with notificationsSent 0 and leaves
\* exactly one new SOS incident of that device, with status active.
C23_NoRecipientsAnswered201 ==
    [][\A b \in SosInputs, f \in FcmInputs :
          (PostSOS(b, f) /\ WellFormedSOS(b) /\ userList(b.deviceId) = <<>>)
          => /\ last'.code = 201
             /\ "notificationsSent" \in DOMAIN last'
             /\ last'.notificationsSent = 0
             /\ OneNewSOS(b.deviceId)]_vars

\* C24: when the notification of an SOS fails (the push service is not
\* initialised, or the delivery call fails), the incident exists with status
\* active, the request is answered as a success, and the failure is recorded
\* on the incident: sent flag false, timestamp set, error text set.
C24_NotificationFailureRecorded ==
    [][\A b \in SosInputs, f \in FcmInputs \ {"ready"} :
          (PostSOS(b, f) /\ WellFormedSOS(b) /\ userList(b.deviceId) # <<>>)
          => /\ OneNewSOS(b.deviceId)
             /\ last'.code \in {200, 201}
             /\ events'[Len(events')].notifications.fcmSent = FALSE
             /\ events'[Len(events')].notifications.fcmTimestamp = now
             /\ events'[Len(events')].notifications.fcmError # ""]_vars

\* an SOS of stick-001 answered 201 while the push service was never
\* initialised, the incident active with the failure recorded
C24_Witness ==
    /\ last.op = "receiveSOS"
    /\ last.code = 201
    /\ Len(events) = 1
    /\ events[1].status = "active"
    /\ events[1].notifications.fcmSent = FALSE
    /\ events[1].notifications.fcmError = "FCM not initialized"

\* C25: in an emergency fan-out to several recipients every delivery is
\* attempted whatever happens to the others: with the router connected, a
\* fan-out hands one message per recipient to the transport, and the SOS
\* fan-out one more for the broadcast channel, also when the broker refuses
\* some of them.
C25_FanoutIsolated ==
    [][\A d \in Devices, fails \in FailInputs :
          /\ (PublishSOSToMobileApp(d, fails) /\ router.connected)
             => router'.sent = router.sent + Len(userList(d)) + 1
          /\ \A f \in FcmInputs :
                (HandleFallDetection(d, f, fails) /\ router.connected)
                => router'.sent = router.sent + Len(userList(d))]_vars

\* C26: every SOS message received on the transport with a payload that
\* parses creates exactly one new incident of type SOS for the device named
\* in the topic, with status active, and the device's recipients, if there
\* are any, are notified.
C26_SosMessageCreatesIncident ==
    [][\A i \in InboundInputs :
          (/\ HandleMessage(i.topic, i.payload)
           /\ router'.invoked = <<"handleSOSMessage">>
           /\ JSONParse(i.payload).ok)
          => /\ OneNewSOS(extractDeviceId(i.topic))
             /\ userList(extractDeviceId(i.topic)) # <<>>
                => router'.notified = router.notified + 1]_vars

-----------------------------------------------------------------------------
(* Properties of command dispatch (SpecCommand) *)

\* the device ids that are well formed
WellFormedIds == {<<"stick-001">>, <<"stick-002">>, <<"stick-009">>}

\* the six commands, as the texts a body can carry
ListedCommands ==
    {<<"vibrate">>, <<"beep">>, <<"led_on">>, <<"led_off">>,
     <<"status_check">>, <<"reboot">>}

\* nothing was published and no entry was recorded
NoDispatch ==
    /\ router'.published = router.published
    /\ router'.sent = router.sent
    /\ events' = events

\* C27 as stated: a single-command dispatch whose device id is malformed or
\* whose command is not one of vibrate, beep, led_on, led_off, status_check,
\* reboot is answered 400, publishes nothing and records no dispatch entry.
C27_InvalidCommandRejected ==
    [][\A c \in CommandInputs, p \in ParameterInputs, rands \in RandomInputs,
          ok \in BOOLEAN :
          (/\ PostCommand(c.deviceId, c.caller, c.command, p, rands[1], ok)
           /\ c.deviceId \notin WellFormedIds \/ c.command \notin ListedCommands)
          => last'.code = 400 /\ NoDispatch]_vars

\* C27 amended: a single-command dispatch whose device id is malformed or
\* whose command, with the blanks around it removed, is not one of the six
\* is answered 400, publishes nothing and records no dispatch entry.
C27_InvalidTrimmedCommandRejected ==
    [][\A c \in CommandInputs, p \in ParameterInputs, rands \in RandomInputs,
          ok \in BOOLEAN :
          (/\ PostCommand(c.deviceId, c.caller, c.command, p, rands[1], ok)
           /\ \/ c.deviceId \notin WellFormedIds
              \/ trimEnd(trimStart(c.command)) \notin ListedCommands)
          => last'.code = 400 /\ NoDispatch]_vars

\* connected, after a dispatch that went out, a request got through the
\* validators of the body and was refused by the controller with 400
C27_Witness ==
    /\ last = CommandAnswer("sendCommand", 400, NoMessageId)
    /\ router.connected
    /\ Len(router.published) = 1
    /\ events # <<>>

\* a caller that may dispatch to the device
Authorized(caller, deviceId) ==
    caller = "admin" \/ (caller \in UserIds /\ deviceId \in UserDevices(caller))

\* C28: a valid, authorized dispatch requested while the transport is
\* disconnected is answered 503, publishes nothing and records no
\* COMMAND_SENT entry; for the single command, the emergency sequence, the
\* status request and the bulk command.
C28_DisconnectedDispatchUnavailable ==
    [][~router.connected =>
         /\ \A c \in CommandInputs, p \in ParameterInputs,
               rands \in RandomInputs, ok \in BOOLEAN :
               (/\ PostCommand(c.deviceId, c.caller, c.command, p, rands[1], ok)
                /\ c.deviceId \in WellFormedIds
                /\ trimEnd(trimStart(c.command)) \in ListedCommands
                /\ Authorized(c.caller, c.deviceId))
               => last'.code = 503 /\ NoDispatch
         /\ \A c \in DeviceRequestInputs, rands \in RandomInputs :
               /\ \A fails \in FailInputs :
                     (/\ SendEmergencyCommands(c.deviceId, c.caller,
                                               Str(<<"high">>), Num("10"),
                                               rands, fails)
                      /\ c.deviceId \in WellFormedIds
                      /\ Authorized(c.caller, c.deviceId))
                     => last'.code = 503 /\ NoDispatch
               /\ \A ok \in BOOLEAN :
                     (/\ GetDeviceStatus(c.deviceId, c.caller, rands[1], ok)
                      /\ c.deviceId \in WellFormedIds
                      /\ Authorized(c.caller, c.deviceId))
                     => last'.code = 503 /\ NoDispatch
         /\ \A b \in BulkInputs, rands \in RandomInputs, fails \in FailInputs :
               (/\ SendBulkCommands(b.deviceIds, b.caller, b.command,
                                    b.parameters, rands, fails)
                /\ b.caller = "admin"
                /\ b.deviceIds # <<>>
                /\ b.command \in ListedCommands)
               => last'.code = 503 /\ NoDispatch]_vars

\* a bulk command refused with 503 after the connection was lost, the entries
\* of an earlier dispatch still there
C28_Witness ==
    /\ last = CommandAnswer("sendBulkCommands", 503, NoMessageId)
    /\ router.client = "offline"
    /\ Len(router.published) = 1
    /\ events # <<>>

\* C29: a successful single-command dispatch publishes exactly one message
\* {command, parameters, messageId, timestamp} to the command topic of the
\* device and records exactly one COMMAND_SENT entry, and the message id
\* answered is the one of the published message and differs from the id of
\* every other dispatch.
C29_DispatchPublishesAndRecordsOnce ==
    [][\A c \in CommandInputs, p \in ParameterInputs, rands \in RandomInputs,
          ok \in BOOLEAN :
          (/\ PostCommand(c.deviceId, c.caller, c.command, p, rands[1], ok)
           /\ last'.code = 200)
          => /\ Len(router'.published) = Len(router.published) + 1
             /\ LET msg == router'.published[Len(router'.published)]
                IN /\ msg.topic = CommandTopic(c.deviceId)
                   /\ <<msg.message.command>> = trimEnd(trimStart(c.command))
                   /\ msg.message.timestamp = now
                   /\ msg.message.messageId = last'.messageId
             /\ Len(events') = Len(events) + 1
             /\ events'[Len(events')].type = "COMMAND_SENT"
             /\ \A i \in DOMAIN router.published :
                   router.published[i].message.messageId # last'.messageId]_vars

\* C30: for every parameters map P given to a successful command dispatch,
\* the parameters stored in the recorded dispatch entry are equal to P.
C30_ParametersRoundTrip ==
    [][\A c \in CommandInputs, p \in ParameterInputs, rands \in RandomInputs,
          ok \in BOOLEAN :
          (/\ PostCommand(c.deviceId, c.caller, c.command, p, rands[1], ok)
           /\ last'.code = 200)
          => \A i \in (Len(events) + 1)..Len(events') :
                events'[i].commandParameters = p]_vars

\* which of the publishes of a bulk request the i-th device id gets: malformed
\* ids get none
PublishIndex(deviceIds, i) ==
    1 + Cardinality({j \in 1..(i - 1) : deviceIds[j] \in WellFormedIds})

-----------------------------------------------------------------------------
(* Properties of authorization (SpecAccess) *)

\* a request left the collections and the router as they were
Unaffected ==
    /\ events' = events
    /\ router' = router
    /\ telemetry' = telemetry
    /\ lastSeen' = lastSeen

\* what an incident operation on a well-formed event id must answer when it
\* is refused: 404 without the incident, 400 for an entry that is no SOS
\* incident, 403 for a registered caller that neither owns the device nor is
\* the admin; 0 when none of these applies
Refusal(eventId, caller) ==
    IF eventId \notin DOMAIN events THEN 404
    ELSE IF events[eventId].type # "SOS" THEN 400
    ELSE IF caller \in UserIds /\ ~Authorized(caller, events[eventId].deviceId)
    THEN 403
    ELSE 0

\* C33: a command dispatch or an incident operation (acknowledge, resolve,
\* escalate) of a caller that neither owns the device nor is the admin is
\* refused with 403 and has no side effect (nothing published, no entry
\* recorded, the incident unchanged); so is an operation on an incident that
\* does not exist (404) or on an entry that is no SOS incident (400).
C33_RefusedWithoutSideEffect ==
    [][/\ \A c \in CommandInputs :
             (/\ PostCommand(c.deviceId, c.caller, c.command, <<>>, "k3x", TRUE)
              /\ c.deviceId \in WellFormedIds
              /\ trimEnd(trimStart(c.command)) \in ListedCommands
              /\ c.caller \in UserIds
              /\ ~Authorized(c.caller, c.deviceId))
             => last'.code = 403 /\ Unaffected
       /\ \A c \in DeviceRequestInputs :
             (/\ \/ SendEmergencyCommands(c.deviceId, c.caller, Str(<<"high">>),
                                          Num("10"), <<"k3x", "p9q", "z1m">>, {})
                 \/ GetDeviceStatus(c.deviceId, c.caller, "k3x", TRUE)
              /\ c.deviceId \in WellFormedIds
              /\ c.caller \in UserIds
              /\ ~Authorized(c.caller, c.deviceId))
             => last'.code = 403 /\ Unaffected
       /\ \A b \in BulkInputs :
             (/\ SendBulkCommands(b.deviceIds, b.caller, b.command,
                                  b.parameters, <<"k3x", "p9q", "z1m">>, {})
              /\ b.caller \in UserIds
              /\ b.caller # "admin")
             => last'.code = 403 /\ Unaffected
       /\ \A id \in EventIdInputs :
             id >= 1 =>
             /\ \A r \in AcknowledgeInputs :
                   (/\ AcknowledgeSOS(id, r.caller, r.note)
                    /\ Refusal(id, r.caller) # 0)
                   => last'.code = Refusal(id, r.caller) /\ Unaffected
             /\ \A r \in ResolveInputs :
                   (/\ ResolveSOS(id, r.caller, r.resolutionNote, r.actions)
                    /\ Refusal(id, r.caller) # 0)
                   => last'.code = Refusal(id, r.caller) /\ Unaffected
             /\ \A r \in EscalateInputs :
                   (/\ EscalateSOS(id, r.caller, r.escalatedTo, r.reason,
                                   r.level)
                    /\ r.escalatedTo \in UserIds \cup {""}
                    /\ Refusal(id, r.caller) # 0)
                   => last'.code = Refusal(id, r.caller) /\ Unaffected]_vars

\* a stranger to the device was refused the acknowledgment of its incident,
\* which is still active, with a dispatch recorded after it
C33_Witness ==
    /\ last = Answer("acknowledge", 1, 403)
    /\ Len(events) = 3
    /\ events[1].type = "SOS"
    /\ events[1].status = "active"
    /\ events[1].acknowledgments = <<>>
    /\ events[3].type = "COMMAND_SENT"

\* C34: a request to a protected route without access token, or with a token
\* that fails verification, is answered 401 and the handler of the route is
\* not invoked (the collections and the router stay as they were); the
\* handler runs only after the token was verified.
C34_UnverifiedAnswered401 ==
    [][\A token \in TokenInputs, c \in RouteInputs, ok \in BOOLEAN :
          /\ \A p \in ParameterInputs :
                (/\ CommandRoute(token, c.deviceId, c.command, p, "k3x", ok)
                 /\ token.kind # "signed")
                => /\ last'.code = 401
                   /\ last'.op = "authenticateToken"
                   /\ Unaffected
          /\ (/\ StatusRoute(token, c.deviceId, "p9q", ok)
              /\ token.kind # "signed")
             => /\ last'.code = 401
                /\ last'.op = "authenticateToken"
                /\ Unaffected]_vars

-----------------------------------------------------------------------------
(* Properties of concurrent incident requests (SpecConcurrent) *)

\* C35: under any interleaving of a concurrent acknowledge request and a
\* concurrent resolve request on the same incident, once the resolve has been
\* saved the stored status is resolved in every later state: the acknowledge
\* request that loaded the incident earlier cannot write it back to
\* acknowledged.
C35_ResolveNotOverwritten ==
    [][\A id \in DOMAIN events :
          (events[id].status = "resolved" /\ events[id].resolution.resolvedAt >= 0)
          => events'[id].status = "resolved"]_vars

-----------------------------------------------------------------------------
(* Properties of the router across reconnects (SpecRouter) *)

\* the patterns of a handler table, in the order of the table
Patterns(mh) == [i \in DOMAIN mh |-> mh[i].pattern]

\* C36: after any number of connect, disconnect and reconnect events the
\* handler table holds at most one handler per topic pattern and the patterns
\* keep the order in which they were first registered, so that subscribing
\* again on a reconnect never has a message handled twice or by another
\* handler than before.  (The table is empty at the start; a step that leaves
\* it alone keeps all of this, and the connection events are the steps that
\* are no call and no message: nreq stays.)
C36_HandlerTableStable ==
    [][router'.messageHandlers # router.messageHandlers =>
          /\ \A i, j \in DOMAIN router'.messageHandlers :
                router'.messageHandlers[i].pattern =
                   router'.messageHandlers[j].pattern => i = j
          /\ IsPrefix(Patterns(router.messageHandlers),
                      Patterns(router'.messageHandlers))
          /\ nreq' = nreq =>
                \A m \in InboundInputs :
                   /\ Len(handleMessage(router'.messageHandlers, m.topic)) <= 1
                   /\ handleMessage(router.messageHandlers, m.topic) # <<>> =>
                         handleMessage(router'.messageHandlers, m.topic) =
                            handleMessage(router.messageHandlers, m.topic)]_vars

\* a second connect completed a table that the first connect had left with
\* five patterns and a caller had extended: the late patterns stand behind
C36_Witness ==
    /\ router.connects = 2
    /\ router.client = "online"
    /\ Len(router.messageHandlers) = Len(DefaultSubscriptions) + 1
    /\ router.messageHandlers[6].handler = "custom"
    /\ router.messageHandlers[9].handler = "handleResponseMessage"

\* C37: the reconnect-attempt counter counts the attempts in a row: every
\* successful connect sets it to 0, it changes otherwise only by one, at a
\* reconnect attempt, it never exceeds maxReconnectAttempts + 1, and the
\* router ends the connection only at an attempt that brings the count since
\* the last successful connect above maxReconnectAttempts.
C37_AttemptsCountedSinceConnect ==
    /\ [](router.reconnectAttempts <= maxReconnectAttempts + 1)
    /\ [][router'.connects # router.connects =>
             router'.reconnectAttempts = 0]_vars
    /\ [][router'.reconnectAttempts # router.reconnectAttempts =>
             \/ /\ router'.connects = router.connects + 1
                /\ router'.reconnectAttempts = 0
             \/ /\ router.client = "offline"
                /\ router'.client \in {"reconnecting", "ended"}
                /\ router'.connects = router.connects
                /\ router'.reconnectAttempts = router.reconnectAttempts + 1]_vars
    /\ [][(router'.client = "ended" /\ router.client # "ended") =>
             /\ router'.reconnectAttempts = router.reconnectAttempts + 1
             /\ router'.reconnectAttempts > maxReconnectAttempts]_vars

\* a router that reconnected once, with attempts counted before that connect,
\* and ended its client at the eleventh attempt after it
C37_Witness ==
    /\ router.connects = 2
    /\ router.client = "ended"
    /\ router.reconnectAttempts = maxReconnectAttempts + 1
    /\ router.subscriptions # {}

-----------------------------------------------------------------------------
(* Properties of the transport-level dispatch (SpecDispatch, SpecCommand) *)

\* C38: whenever the transport-level sendCommand reports a failure
\* ({success: false}) no command message of that call was published to the
\* command topic of the device; a failure to record the dispatch entry after
\* a successful publish is not reported as a failed dispatch.
C38_FailureMeansNothingPublished ==
    [][\A c \in DispatchInputs, rands \in RandomInputs, brokerOk \in BOOLEAN,
          createOk \in BOOLEAN :
          (/\ MqttSendCommand(c.deviceId, c.command, c.parameters, rands[2],
                              brokerOk, createOk)
           /\ ~last'.success)
          => router'.published = router.published]_vars

\* the entries a step added have each a message that the step published: to
\* the command topic of the entry's device, with the entry's command
EntriesHavePublish ==
    \A i \in (Len(events) + 1)..Len(events') :
       events'[i].type = "COMMAND_SENT" =>
          \E k \in (Len(router.published) + 1)..Len(router'.published) :
             /\ router'.published[k].topic = CommandTopic(events'[i].deviceId)
             /\ router'.published[k].message.command = events'[i].command

\* C39: a COMMAND_SENT dispatch entry exists only for a command whose publish
\* succeeded: in the single, the bulk and the emergency dispatch a command
\* whose publish failed leaves no COMMAND_SENT entry.
C39_EntryOnlyAfterPublish ==
    [][EntriesHavePublish]_vars

-----------------------------------------------------------------------------
(* Properties of the low-battery notification (SpecNotify) *)

\* the LOW_BATTERY incidents in the collection
LowBatteryIncidents == {i \in DOMAIN events : events[i].type = "LOW_BATTERY"}

\* C40: a low-battery notification is sent to the recipients of a device only
\* by a handler that created a new LOW_BATTERY incident for this message: a
\* message whose alert the cooldown suppresses sends none, and the number of
\* notification sends never exceeds the number of LOW_BATTERY incidents
\* created on the transport path.
C40_NotificationOnlyWithIncident ==
    /\ [](router.notified <= Cardinality(LowBatteryIncidents))
    /\ [][router'.notified # router.notified =>
             /\ router'.notified = router.notified + 1
             /\ \E h \in HandlerIds :
                   /\ handlers[h].pc = "notify"
                   /\ handlers'[h].pc # "notify"
                   /\ ~handlers[h].recent
                   /\ handlers[h].created \in LowBatteryIncidents
                   /\ events[handlers[h].created].deviceId =
                         handlers[h].msg.deviceId
                   /\ \A g \in HandlerIds \ {h} :
                         handlers[g].created # handlers[h].created]_vars

\* two low-battery messages of stick-001 were handled: the first created the
\* incident and notified, the second was suppressed and sent nothing
C40_Witness ==
    /\ \A h \in 1..2 :
          /\ handlers[h].pc = "done"
          /\ handlers[h].msg.deviceId = <<"stick-001">>
          /\ handlers[h].msg.level < LowBatteryThreshold
    /\ ~handlers[1].recent
    /\ handlers[2].recent
    /\ handlers[2].created = 0
    /\ router.notified = 1
    /\ Cardinality(LowBatteryIncidents) = 1

====
